---------------------------- MODULE Spec2Model ----------------------------
(***************************************************************************)
(* Verification model of nextjs-mcp-dev-monitor.                           *)
(*                                                                         *)
(* Part I   - ProcessManager (src/src/components/ProcessManager.ts): the   *)
(*            supervisor of the dev-server child process, as a machine of  *)
(*            API calls (start, stop) and event-loop callbacks (child      *)
(*            data / exit / error events, the two timers).                 *)
(* Part II  - AutoFixer (src/unnamed/part_001): one fix attempt as the     *)
(*            sequence of its awaited steps, over a small file system.     *)
(*                                                                         *)
(* Part III - LogParser (src/src/components/LogParser.ts): the parser of   *)
(*            the child's output, computed on strings.                     *)
(* Part IV  - ErrorClassifier (src/unnamed/part_003) and MonitorService    *)
(*            (src/tests/mcp/MCPInterface.test.ts 859-1137): the live set  *)
(*            of diagnostics and its metrics.                              *)
(*                                                                         *)
(* Part V   - the backup store of the AutoFixer: create, restore,          *)
(*            validate and clean up, over the same file system.            *)
(*                                                                         *)
(* Part VI  - the ErrorClassifier on its own, called on sample             *)
(*            diagnostics.                                                 *)
(*                                                                         *)
(* Part VII - the apply_fix tool (src/unnamed/part_005): requests that     *)
(*            reach the AutoFixer without being serialised.                *)
(*                                                                         *)
(* Part VIII - validateFix of the AutoFixer on its own, called on the      *)
(*            findings of its four checks.                                 *)
(*                                                                         *)
(* Part IX  - the sessions of the MonitorService and the configuration     *)
(*            its AutoFixer holds.                                         *)
(*                                                                         *)
(* The parts have separate specifications (SupSpec, FixSpec, ParSpec,      *)
(* MonSpec, BakSpec, ClsSpec, ToolSpec, ConSpec, ValSpec, SesSpec); each   *)
(* leaves the other parts' variables unchanged.                            *)
(***************************************************************************)
EXTENDS Integers, Sequences, FiniteSets, TLC

(***************************************************************************)
(* Bounds of the model (not program constants).                            *)
(***************************************************************************)
\* start() calls, and so children spawned, in one run
MaxStarts == 3
\* stop() calls in one run
MaxStops == 1
\* chunks the output buffer holds before it is cleared
MaxOutput == 1
\* restart() calls in one run
MaxRestarts == 1
\* calls, events and timer expiries handled by the supervisor in one run
MaxSteps == 6
MaxInFlight == 2
MaxAttempts == 2
\* apply_fix requests answered without a call of the fixer in one run
MaxRefusals == 1
\* lines in one buffer handed to parseLogBuffer
MaxLines == 2
\* parser calls in one run
MaxParses == 2
\* chunks of output the monitor service handles in one run
MaxChunks == 2
\* start() calls of the monitor service in one run
MaxMonStarts == 2
\* applyAutoFix() calls in one run
MaxAutoFixes == 2
\* calls and events the monitor service handles in one run
MaxMonSteps == 5
\* operations on the backup store and its surroundings in one run
MaxBakSteps == 5
\* days the clock of the backup store runs
MaxDay == 8
\* diagnostics in one batch handed to classifyErrors
MaxBatch == 3

(***************************************************************************)
(* Program constants.                                                      *)
(***************************************************************************)
\* DEFAULT_CONFIG.backupRetentionDays
BackupRetentionDays == 7

VARIABLES
  steps,         \* steps of the supervisor handled so far in this run
  process,       \* this.process: 0 is undefined, k > 0 the k-th ChildProcess
  projectPath,   \* this.projectPath ("" is undefined / falsy)
  options,       \* this.options
  isStarting,    \* this.isStarting
  outputBuffer,  \* this.outputBuffer
  child,         \* the ChildProcess objects returned by spawn()
  startCall,     \* the promises returned by start()
  stopCall,      \* the promises returned by stop()
  restartCall,   \* the promises returned by restart()
  config,        \* AutoFixer.config (safeMode, backupEnabled, validateFixes)
  eslint,        \* AutoFixer.eslint is defined
  fs,            \* content of the project's source files
  blobs,         \* content of the backup files in the backup directory
  backupMetadata,\* AutoFixer.backupMetadata (the in-memory index)
  metadataFile,  \* ids in metadata.json, the persisted index
  call,          \* the applyFix / forceApplyFix calls in flight or last done
  fixCount,      \* number of applyFix / forceApplyFix calls made so far
  parseCall,     \* the last parser call: its operation and input
  parseResult,   \* what it returned (parseLogLine: one diagnostic or none)
  uuids,         \* randomUUID() values drawn so far
  parses,        \* parser calls made so far
  monChild,      \* the child of the process manager, as the service sees it
  autoFixer,     \* MonitorService.autoFixer is defined
  currentErrors, \* MonitorService.currentErrors, a map from key to error
  metrics,       \* MonitorService.metrics
  autoFix,       \* the applyAutoFix call in flight or last done
  emitted,       \* the events the service emitted in its last step
  nextId,        \* the next randomUUID() value
  now,           \* the clock, one tick per chunk of output
  monCalls,      \* start, applyAutoFix and all steps made so far
  today,         \* the date, in days
  captured,      \* the content of the file when each backup was created
  bakOp,         \* the last operation on the backup store and its result
  bakSteps,      \* steps of the backup store made so far
  rankCall,      \* the last classifier call: its operation and input
  rankResult,    \* what it returned (classifyError: one diagnostic)
  toolCall,      \* the apply_fix requests, by the applyFix call they made
  valCall,       \* the last validateFix call: its input and its result
  session        \* MonitorService.config, and the config its AutoFixer holds

supVars == <<steps, process, projectPath, options, isStarting, outputBuffer,
             child, startCall, stopCall, restartCall>>

fixVars == <<config, eslint, fs, blobs, backupMetadata, metadataFile, call,
             fixCount>>

parVars == <<parseCall, parseResult, uuids, parses>>

monVars == <<monChild, autoFixer, currentErrors, metrics, autoFix, emitted,
             nextId, now, monCalls>>

bakVars == <<today, captured, bakOp, bakSteps>>

clsVars == <<rankCall, rankResult>>

toolVars == <<toolCall>>

valVars == <<valCall>>

sesVars == <<session>>

vars ==
  <<supVars, fixVars, parVars, monVars, bakVars, clsVars, toolVars, valVars,
    sesVars>>

\* what the actions of one part leave alone
besidesSup ==
  <<fixVars, parVars, monVars, bakVars, clsVars, toolVars, valVars,
    sesVars>>

besidesFix ==
  <<supVars, parVars, monVars, bakVars, clsVars, toolVars, valVars,
    sesVars>>

besidesPar ==
  <<supVars, fixVars, monVars, bakVars, clsVars, toolVars, valVars,
    sesVars>>

besidesMon ==
  <<supVars, fixVars, parVars, bakVars, clsVars, toolVars, valVars,
    sesVars>>

besidesBak ==
  <<supVars, parVars, monVars, clsVars, toolVars, valVars, sesVars, config,
    eslint, call, fixCount>>

besidesCls ==
  <<supVars, fixVars, parVars, monVars, bakVars, toolVars, valVars,
    sesVars>>

StartCalls == 1..MaxStarts
StopCalls == 1..MaxStops
RestartCalls == 1..MaxRestarts
Children == 1..MaxStarts

(***************************************************************************)
(* Inputs.                                                                 *)
(***************************************************************************)
\* (projectPath, options) pairs passed to start(); "" is a falsy path
StartInputs == {<<"", "none">>, <<"/a", "none">>, <<"/b", "port">>}
\* representative output chunks: one carries a ready substring, one does not
Chunks == {"Ready in 2s", "compiling"}
ExitCodes == {"0", "1", "null"}

\* ProcessManager.ts:195  data.includes('Ready') || includes('started server')
\*                        || includes('Local:')
IsReadySignal(data) ==
  data \in {"Ready in 2s", "started server on", "- Local: http"}

NoChild ==
  [os |-> "unborn", killed |-> FALSE, signals |-> {}, streams |-> FALSE,
   checkReady |-> FALSE, stopWaiters |-> {}, owner |-> 0]

\* busyAtCall: an earlier start() was still pending when this one was called;
\* path, opts: the arguments of the call
NoCall ==
  [state |-> "idle", error |-> "none", timer |-> "none", child |-> 0,
   busyAtCall |-> FALSE, path |-> "", opts |-> "none"]

\* liveAtCall: the child was alive when stop() was called;
\* forced: the process the grace timer of this call sent SIGKILL to
NoStop ==
  [state |-> "idle", error |-> "none", timer |-> "none", child |-> 0,
   liveAtCall |-> FALSE, forced |-> 0]

\* stop, start: the stop() and start() calls this restart() awaits
NoRestart ==
  [state |-> "idle", error |-> "none", stop |-> 0, start |-> 0]

SupInit ==
  /\ restartCall = [r \in RestartCalls |-> NoRestart]
  /\ steps = 0
  /\ process = 0
  /\ projectPath = ""
  /\ options = "none"
  /\ isStarting = FALSE
  /\ outputBuffer = <<>>
  /\ child = [k \in Children |-> NoChild]
  /\ startCall = [c \in StartCalls |-> NoCall]
  /\ stopCall = [s \in StopCalls |-> NoStop]

(***************************************************************************)
(* isRunning(): this.process !== undefined && !this.process.killed         *)
(***************************************************************************)
IsRunning == process # 0 /\ ~child[process].killed

\* ChildProcess.kill(signal): the signal is delivered, and `killed` set,
\* only while the OS process exists
Kill(ch, k, sig) ==
  IF k # 0 /\ ch[k].os = "alive"
    THEN [ch EXCEPT ![k].killed = TRUE, ![k].signals = @ \cup {sig}]
    ELSE ch

\* resolve()/reject() of a promise that is already settled is a no-op
Settle(calls, c, st, err) ==
  IF calls[c].state = "pending"
    THEN [calls EXCEPT ![c].state = st, ![c].error = err]
    ELSE calls

\* the stop() exit/error listeners: clearTimeout(timeout); cleanup(); settle
SettleStops(calls, W, st, err) ==
  [s \in StopCalls |->
     IF s \in W
       THEN [calls[s] EXCEPT
               !.timer = IF @ = "armed" THEN "cleared" ELSE @,
               !.state = IF @ = "pending" THEN st ELSE @,
               !.error = IF calls[s].state = "pending" THEN err ELSE @]
       ELSE calls[s]]

SomeStartPending == \E c \in StartCalls : startCall[c].state = "pending"

ErrorEventPending == \E k \in Children : child[k].os = "failing"

FreeChildren == {k \in Children : child[k].os = "unborn"}

\* one more step of the run
Tick == steps < MaxSteps /\ steps' = steps + 1

\* a restart() awaits a promise that is settled: its continuation is the
\* next thing to run
RestartDue ==
  \E r \in RestartCalls :
    \/ /\ restartCall[r].state = "stopping"
       /\ stopCall[restartCall[r].stop].state \in {"resolved", "rejected"}
    \/ /\ restartCall[r].state = "starting"
       /\ startCall[restartCall[r].start].state \in {"resolved", "rejected"}

\* a step that is not one of restart()
Alone == ~RestartDue /\ UNCHANGED restartCall

(***************************************************************************)
(* start(projectPath, options), with the synchronous part of               *)
(* spawnDevServer() it runs before its first await.                        *)
(***************************************************************************)
DoStart(c, path, opts) ==
  /\ startCall[c].state = "idle"
  /\ \A d \in StartCalls : d < c => startCall[d].state # "idle"
  /\ LET busy == SomeStartPending IN
     IF isStarting
       THEN /\ startCall' = [startCall EXCEPT ![c] =
                 [NoCall EXCEPT !.path = path, !.opts = opts,
                                !.state = "rejected",
                                !.error = "Process is already starting",
                                !.busyAtCall = busy]]
            /\ UNCHANGED <<process, projectPath, options, isStarting, child>>
     ELSE IF IsRunning
       THEN /\ startCall' = [startCall EXCEPT ![c] =
                 [NoCall EXCEPT !.path = path, !.opts = opts,
                                !.state = "rejected",
                                !.error = "Process is already running",
                                !.busyAtCall = busy]]
            /\ UNCHANGED <<process, projectPath, options, isStarting, child>>
     ELSE IF path = ""
       THEN \* spawnDevServer throws; the catch in start() resets isStarting
            /\ startCall' = [startCall EXCEPT ![c] =
                 [NoCall EXCEPT !.path = path, !.opts = opts,
                                !.state = "rejected",
                                !.error = "Project path is required",
                                !.busyAtCall = busy]]
            /\ projectPath' = path
            /\ options' = opts
            /\ isStarting' = FALSE
            /\ UNCHANGED <<process, child>>
     ELSE \E k \in FreeChildren, spawned \in BOOLEAN :
            /\ \A j \in FreeChildren : k <= j
            /\ projectPath' = path
            /\ options' = opts
            /\ isStarting' = TRUE
            /\ process' = k
            /\ child' = [child EXCEPT ![k] =
                 [NoChild EXCEPT !.os = IF spawned THEN "alive" ELSE "failing",
                                 !.streams = spawned,
                                 !.checkReady = TRUE,
                                 !.owner = c]]
            /\ startCall' = [startCall EXCEPT ![c] =
                 [NoCall EXCEPT !.path = path, !.opts = opts,
                                !.state = "pending", !.timer = "armed",
                                !.child = k, !.busyAtCall = busy]]
  /\ UNCHANGED <<outputBuffer, stopCall>>

\* start() called by the user of the supervisor
Start(c, path, opts) ==
  /\ UNCHANGED besidesSup
  /\ Tick
  /\ Alone
  /\ DoStart(c, path, opts)

(***************************************************************************)
(* 'data' on stdout or stderr of child k: the buffering listener, then     *)
(* checkReady while it is still attached.                                  *)
(***************************************************************************)
ChildData(k, data) ==
  /\ UNCHANGED besidesSup
  /\ Tick
  /\ Alone
  /\ child[k].streams
  /\ child[k].os \in {"alive", "exited"}
  /\ Len(outputBuffer) < MaxOutput
  /\ outputBuffer' = Append(outputBuffer, data)
  /\ IF child[k].checkReady /\ IsReadySignal(data)
       THEN /\ isStarting' = FALSE
            \* this.process?.stdout?.off(...): detaches only when this.process
            \* is still the child the listener sits on
            /\ child' = [child EXCEPT ![k].checkReady =
                           IF process = k THEN FALSE ELSE @]
            /\ startCall' = Settle(startCall, child[k].owner, "resolved", "none")
       ELSE UNCHANGED <<isStarting, child, startCall>>
  /\ UNCHANGED <<process, projectPath, options, stopCall>>

\* the child's stdout/stderr end some time after its exit
StreamsClose(k) ==
  /\ UNCHANGED besidesSup
  /\ Tick
  /\ Alone
  /\ child[k].os = "exited"
  /\ child[k].streams
  /\ child' = [child EXCEPT ![k].streams = FALSE]
  /\ UNCHANGED <<process, projectPath, options, isStarting, outputBuffer,
                 startCall, stopCall>>

(***************************************************************************)
(* 'exit' of child k with (code, signal): the spawnDevServer listener,     *)
(* then the once('exit') listeners of the stop() calls waiting on k.       *)
(***************************************************************************)
ChildExit(k, code) ==
  /\ UNCHANGED besidesSup
  /\ Tick
  /\ Alone
  /\ child[k].os = "alive"
  /\ "SIGKILL" \in child[k].signals => code = "null"
  /\ isStarting' = FALSE
  /\ process' = 0
  /\ startCall' = IF code # "0" /\ code # "null"
                    THEN Settle(startCall, child[k].owner, "rejected",
                                "Process exited with code")
                    ELSE startCall
  /\ stopCall' = SettleStops(stopCall, child[k].stopWaiters, "resolved", "none")
  /\ child' = [child EXCEPT ![k].os = "exited", ![k].stopWaiters = {}]
  /\ UNCHANGED <<projectPath, options, outputBuffer>>

(***************************************************************************)
(* 'error' of child k (the spawn failed): the spawnDevServer listener,     *)
(* then the once('error') listeners of the stop() calls waiting on k.      *)
(***************************************************************************)
ChildError(k) ==
  /\ UNCHANGED besidesSup
  /\ Tick
  /\ Alone
  /\ child[k].os = "failing"
  /\ isStarting' = FALSE
  /\ process' = 0
  /\ startCall' = Settle(startCall, child[k].owner, "rejected", "spawn error")
  /\ stopCall' = SettleStops(stopCall, child[k].stopWaiters, "rejected",
                             "spawn error")
  /\ child' = [child EXCEPT ![k].os = "failed", ![k].stopWaiters = {}]
  /\ UNCHANGED <<projectPath, options, outputBuffer>>

(***************************************************************************)
(* The 30 s timer armed by spawnDevServer() for start call c.              *)
(***************************************************************************)
StartTimeout(c) ==
  /\ UNCHANGED besidesSup
  /\ Tick
  /\ Alone
  /\ startCall[c].timer = "armed"
  /\ ~ErrorEventPending
  /\ \A d \in StartCalls : d < c => startCall[d].timer # "armed"
  /\ IF isStarting
       THEN /\ isStarting' = FALSE
            /\ child' = Kill(child, process, "SIGTERM")
            /\ startCall' = [Settle(startCall, c, "rejected",
                                    "Process startup timeout")
                               EXCEPT ![c].timer = "fired"]
       ELSE /\ startCall' = [startCall EXCEPT ![c].timer = "fired"]
            /\ UNCHANGED <<isStarting, child>>
  /\ UNCHANGED <<process, projectPath, options, outputBuffer, stopCall>>

(***************************************************************************)
(* stop()                                                                  *)
(***************************************************************************)
DoStop(s) ==
  /\ stopCall[s].state = "idle"
  /\ \A t \in StopCalls : t < s => stopCall[t].state # "idle"
  /\ IF process = 0
       THEN /\ stopCall' = [stopCall EXCEPT ![s] =
                 [NoStop EXCEPT !.state = "resolved"]]
            /\ UNCHANGED child
       ELSE /\ stopCall' = [stopCall EXCEPT ![s] =
                 [NoStop EXCEPT !.state = "pending", !.timer = "armed",
                                !.child = process,
                                !.liveAtCall = (child[process].os = "alive")]]
            /\ child' = Kill([child EXCEPT ![process].stopWaiters = @ \cup {s}],
                             process, "SIGTERM")
  /\ UNCHANGED <<process, projectPath, options, isStarting, outputBuffer,
                 startCall>>

\* stop() called by the user of the supervisor
Stop(s) ==
  /\ UNCHANGED besidesSup
  /\ Tick
  /\ Alone
  /\ DoStop(s)

(***************************************************************************)
(* restart(): stop() and its await when the supervisor is running, then    *)
(* start() with the stored path and options and its await.                 *)
(***************************************************************************)
RestartSettle(r, st, err) ==
  /\ restartCall' = [restartCall EXCEPT ![r].state = st, ![r].error = err]
  /\ UNCHANGED <<process, projectPath, options, isStarting, outputBuffer,
                 child, startCall, stopCall>>

\* a plausible slip: restart starts without looking at the stored path
RestartStart_NoCheck(r) ==
  \E c \in StartCalls :
    /\ DoStart(c, projectPath, options)
    /\ restartCall' = [restartCall EXCEPT ![r].state = "starting",
                                          ![r].start = c]

\* a plausible slip: restart passes the stored path but not the options
RestartStart_NoOptions(r) ==
  IF projectPath # ""
    THEN \E c \in StartCalls :
           /\ DoStart(c, projectPath, "none")
           /\ restartCall' = [restartCall EXCEPT ![r].state = "starting",
                                                 ![r].start = c]
    ELSE RestartSettle(r, "rejected", "Cannot restart: no project path stored")

\* if (this.projectPath) await this.start(...) else throw
RestartStart(r) ==
  IF projectPath # ""
    THEN \E c \in StartCalls :
           /\ DoStart(c, projectPath, options)
           /\ restartCall' = [restartCall EXCEPT ![r].state = "starting",
                                                 ![r].start = c]
    ELSE RestartSettle(r, "rejected", "Cannot restart: no project path stored")

\* restart() up to its first await
Restart(r) ==
  /\ UNCHANGED besidesSup
  /\ Tick
  /\ ~RestartDue
  /\ restartCall[r].state = "idle"
  /\ \A q \in RestartCalls : q < r => restartCall[q].state # "idle"
  /\ IF IsRunning
       THEN \E s \in StopCalls :
              /\ DoStop(s)
              /\ restartCall' = [restartCall EXCEPT ![r].state = "stopping",
                                                    ![r].stop = s]
       ELSE RestartStart(r)

\* restart() after await this.stop()
RestartAfterStop(r) ==
  /\ UNCHANGED besidesSup
  /\ Tick
  /\ restartCall[r].state = "stopping"
  /\ stopCall[restartCall[r].stop].state \in {"resolved", "rejected"}
  /\ IF stopCall[restartCall[r].stop].state = "rejected"
       THEN RestartSettle(r, "rejected", stopCall[restartCall[r].stop].error)
       ELSE RestartStart(r)

\* restart() after await this.start(...)
RestartAfterStart(r) ==
  /\ UNCHANGED besidesSup
  /\ Tick
  /\ restartCall[r].state = "starting"
  /\ startCall[restartCall[r].start].state \in {"resolved", "rejected"}
  /\ RestartSettle(r, startCall[restartCall[r].start].state,
                   startCall[restartCall[r].start].error)

\* a plausible slip: the grace timer resolves the stop() it escalates
ForceKillSettle_Resolve(calls, s) == Settle(calls, s, "resolved", "none")

\* reject(new Error('Process force killed after timeout'))
ForceKillSettle(calls, s) ==
  Settle(calls, s, "rejected", "Process force killed after timeout")

(***************************************************************************)
(* The 10 s timer armed by stop() call s.                                  *)
(***************************************************************************)
StopTimeout(s) ==
  /\ UNCHANGED besidesSup
  /\ Tick
  /\ Alone
  /\ stopCall[s].timer = "armed"
  /\ ~ErrorEventPending
  /\ \A t \in StopCalls : t < s => stopCall[t].timer # "armed"
  /\ IF process # 0
       THEN /\ child' = Kill(child, process, "SIGKILL")
            /\ stopCall' = [ForceKillSettle(stopCall, s)
                              EXCEPT ![s].timer = "fired",
                                     ![s].forced = process]
       ELSE /\ stopCall' = [stopCall EXCEPT ![s].timer = "fired"]
            /\ UNCHANGED child
  /\ UNCHANGED <<process, projectPath, options, isStarting, outputBuffer,
                 startCall>>

\* clearOutputBuffer()
ClearOutputBuffer ==
  /\ UNCHANGED besidesSup
  /\ Tick
  /\ Alone
  /\ outputBuffer # <<>>
  /\ outputBuffer' = <<>>
  /\ UNCHANGED <<process, projectPath, options, isStarting, child, startCall,
                 stopCall>>

SupNext ==
  \/ \E c \in StartCalls, in \in StartInputs : Start(c, in[1], in[2])
  \/ \E k \in Children, data \in Chunks : ChildData(k, data)
  \/ \E k \in Children : StreamsClose(k)
  \/ \E k \in Children, code \in ExitCodes : ChildExit(k, code)
  \/ \E k \in Children : ChildError(k)
  \/ \E c \in StartCalls : StartTimeout(c)
  \/ \E s \in StopCalls : Stop(s)
  \/ \E s \in StopCalls : StopTimeout(s)
  \/ ClearOutputBuffer
  \/ \E r \in RestartCalls : Restart(r)
  \/ \E r \in RestartCalls : RestartAfterStop(r)
  \/ \E r \in RestartCalls : RestartAfterStart(r)



(***************************************************************************)
(***************************************************************************)
(* Part II - AutoFixer                                                     *)
(***************************************************************************)
(***************************************************************************)

(***************************************************************************)
(* Diagnostics.  A message is represented by the set of the substrings     *)
(* (of the lower-cased message) and of the regular expressions (marked     *)
(* "re:") the strategy selectors test that it contains or matches.         *)
(***************************************************************************)
JsFile == "src/view.js"
ApiFile == "pages/api/users.ts"
Files == {JsFile, ApiFile}

Diag(t, f, m) == [type |-> t, file |-> f, msg |-> m]

Diagnostics ==
  { Diag("typescript", ApiFile, {"cannot find name", "re:Cannot find name"}),
    Diag("typescript", ApiFile, {"type assertion"}),
    Diag("typescript", ApiFile, {"parameter", "implicitly has an 'any' type"}),
    Diag("typescript", ApiFile, {}),
    Diag("import", JsFile, {"module not found", "re:Cannot resolve module"}),
    Diag("import", JsFile, {"file extension"}),
    Diag("build", JsFile, {"next.config"}),
    Diag("build", JsFile, {"package.json"}),
    Diag("eslint", JsFile, {}),
    Diag("eslint", JsFile, {"img", "tag"}),
    Diag("eslint", JsFile, {"console", "unexpected console statement"}),
    Diag("eslint", ApiFile, {"req."}),
    Diag("runtime", ApiFile, {"req."}),
    Diag("runtime", JsFile, {"hook"}),
    Diag("runtime", JsFile, {"hook", "component"}),
    Diag("runtime", JsFile, {"usestate"}),
    Diag("unknown", JsFile, {}) }

Has(e, sub) == sub \in e.msg
PathHasApp(e) == FALSE                    \* neither path contains '/app/'
PathHasApi(e) == e.file = ApiFile         \* filePath.includes('/api/')
IsTsPath(f) == f = ApiFile                \* endsWith('.ts') || endsWith('.tsx')
IsJsPath(f) == f = JsFile                 \* endsWith('.js') || endsWith('.jsx')

Null == "null"

GetTypeScriptFixStrategy(e) ==
  IF (Has(e, "cannot find name") \/ Has(e, "is not defined"))
       /\ Has(e, "re:Cannot find name")
    THEN "add_import"
  ELSE IF Has(e, "parameter") /\ Has(e, "implicitly has an 'any' type")
    THEN "add_type_annotation"
  ELSE IF Has(e, "function")
            /\ (Has(e, "return type")
                  \/ Has(e, "implicitly has an 'any' return type"))
    THEN "add_return_type"
  ELSE IF Has(e, "property") /\ Has(e, "does not exist on type")
            /\ Has(e, "re:Property does not exist on type")
    THEN "fix_property_access"
  ELSE IF Has(e, "type assertion")
            \/ Has(e, "could be instantiated with a different subtype")
    THEN "add_type_assertion"
  ELSE IF Has(e, "object is possibly 'null'")
            \/ Has(e, "object is possibly 'undefined'")
    THEN "add_null_check"
  ELSE IF Has(e, "is declared but never used") \/ Has(e, "unused")
    THEN "remove_unused_variable"
  ELSE IF Has(e, "is missing in type") /\ Has(e, "but required in type")
            /\ Has(e, "re:Property is missing in type")
    THEN "add_missing_property"
  ELSE IF Has(e, "module")
            /\ (Has(e, "cannot be resolved") \/ Has(e, "could not be resolved"))
            /\ Has(e, "re:Module")
    THEN "fix_module_resolution"
  ELSE Null

GetImportFixStrategy(e) ==
  IF (Has(e, "module not found") \/ Has(e, "cannot resolve module"))
       /\ Has(e, "re:Cannot resolve module")
    THEN "install_dependency"
  ELSE IF Has(e, "file extension") \/ Has(e, ".js extension")
    THEN "fix_import_extension"
  ELSE Null

GetBuildFixStrategy(e) ==
  IF Has(e, "next.config") THEN "fix_nextjs_config"
  ELSE IF Has(e, "package.json") THEN "fix_package_json"
  ELSE Null

IsNextJSAppRouterIssue(e) ==
  /\ PathHasApp(e)
  /\ \/ Has(e, "cannot use router") \/ Has(e, "userouter is not defined")
     \/ Has(e, "use client") \/ Has(e, "server component")
     \/ Has(e, "client component")

GetNextJSAppRouterFix(e) ==
  IF Has(e, "userouter") \/ Has(e, "router") \/ Has(e, "use client")
    THEN "add_use_client_directive"
    ELSE "fix_nextjs_app_router"

IsClientComponentIssue(e) ==
  \/ Has(e, "usestate") \/ Has(e, "useeffect") \/ Has(e, "onclick")
  \/ Has(e, "event handler") \/ Has(e, "use client") \/ Has(e, "browser api")

IsAPIRouteIssue(e) ==
  /\ PathHasApi(e)
  /\ \/ Has(e, "response") \/ Has(e, "request") \/ Has(e, "res.")
     \/ Has(e, "req.") \/ Has(e, "nextapiresponse") \/ Has(e, "nextapirequest")

GetAPIRouteFix(e) ==
  IF Has(e, "missing return") \/ Has(e, "response")
    THEN "add_api_response"
    ELSE "fix_api_route_handler"

IsImageOptimizationIssue(e) ==
  \/ Has(e, "next/image")
  \/ (Has(e, "image") /\ Has(e, "optimization"))
  \/ (Has(e, "img") /\ Has(e, "tag"))
  \/ Has(e, "priority")
  \/ (Has(e, "alt") /\ Has(e, "attribute"))

GetImageOptimizationFix(e) ==
  IF Has(e, "alt") THEN "add_alt_attribute"
  ELSE IF Has(e, "priority") THEN "add_priority_prop"
  ELSE "convert_to_next_image"

IsReactHookIssue(e) ==
  \/ Has(e, "hook") \/ Has(e, "useeffect") \/ Has(e, "usestate")
  \/ Has(e, "dependency array") \/ Has(e, "exhaustive-deps")

GetReactHookFix(e) ==
  IF Has(e, "dependency") \/ Has(e, "exhaustive-deps")
    THEN "fix_hook_dependencies"
  ELSE IF Has(e, "hook") /\ Has(e, "component")
    THEN "move_hook_to_component"
  ELSE "fix_hook_usage"

IsMissingKeyPropIssue(e) ==
  \/ (Has(e, "key") /\ Has(e, "prop"))
  \/ (Has(e, "unique") /\ Has(e, "key"))
  \/ (Has(e, "list") /\ Has(e, "key"))

IsConsoleStatementIssue(e) ==
  \/ Has(e, "console") \/ Has(e, "no-console")
  \/ Has(e, "unexpected console statement")

IsEnvironmentVariableIssue(e) ==
  \/ Has(e, "process.env") \/ Has(e, "environment variable")
  \/ Has(e, "next_public_") \/ Has(e, "env variable")

IsStrictModeIssue(e) ==
  \/ Has(e, "strict mode") \/ Has(e, "exactoptionalpropertytypes")
  \/ Has(e, "optional property")
  \/ (Has(e, "undefined") /\ Has(e, "type"))

IsUnusedImportIssue(e) ==
  \/ Has(e, "unused import") \/ Has(e, "is imported but never used")
  \/ Has(e, "no-unused-imports")

GetCustomFixStrategy(e) ==
  IF IsNextJSAppRouterIssue(e) THEN GetNextJSAppRouterFix(e)
  ELSE IF IsClientComponentIssue(e) THEN "add_use_client_directive"
  ELSE IF IsAPIRouteIssue(e) THEN GetAPIRouteFix(e)
  ELSE IF IsImageOptimizationIssue(e) THEN GetImageOptimizationFix(e)
  ELSE IF IsReactHookIssue(e) THEN GetReactHookFix(e)
  ELSE IF IsMissingKeyPropIssue(e) THEN "add_key_prop"
  ELSE IF IsConsoleStatementIssue(e) THEN "remove_console_statement"
  ELSE IF IsEnvironmentVariableIssue(e) THEN "fix_env_variable_usage"
  ELSE IF IsStrictModeIssue(e) THEN "fix_strict_mode_types"
  ELSE IF IsUnusedImportIssue(e) THEN "remove_unused_import"
  ELSE Null

\* getFixStrategy: the centralized selector used by the safe-mode gate
GetFixStrategy(e) ==
  CASE e.type = "typescript" -> GetTypeScriptFixStrategy(e)
    [] e.type = "import" -> GetImportFixStrategy(e)
    [] e.type = "build" -> GetBuildFixStrategy(e)
    [] OTHER -> GetCustomFixStrategy(e)

SafeFixes ==
  {"remove_unused_import", "remove_console_statement", "add_import",
   "fix_import_extension"}

ComplexFixes ==
  {"add_type_assertion", "fix_nextjs_config", "fix_package_json",
   "install_dependency", "convert_to_next_image", "fix_api_route_handler"}

SimpleTypeFixes == {"add_type_annotation", "add_return_type", "add_null_check"}

HighRiskFixes ==
  {"install_dependency", "fix_nextjs_config", "fix_package_json",
   "fix_api_route_handler", "convert_to_next_image", "fix_hook_usage",
   "move_hook_to_component"}

MediumRiskFixes ==
  {"add_type_assertion", "fix_property_access", "add_missing_property",
   "fix_module_resolution", "add_use_client_directive",
   "fix_nextjs_app_router"}

\* strategies whose implementation is a stub that only returns a failure
StubFixes ==
  {"install_dependency", "fix_nextjs_config", "fix_package_json",
   "move_hook_to_component", "fix_hook_usage"}

CanFixInSafeMode(e, eslintOn) ==
  LET strategy == GetFixStrategy(e) IN
  IF strategy # Null /\ strategy \in SafeFixes THEN TRUE
  ELSE IF e.type = "eslint" /\ eslintOn THEN TRUE
  ELSE IF strategy # Null /\ strategy \in ComplexFixes THEN FALSE
  ELSE IF strategy # Null /\ strategy \in SimpleTypeFixes THEN TRUE
  ELSE FALSE

\* a plausible slip: the high-risk list is not consulted
AssessFixRisk_NoHigh(strategy) ==
  IF strategy \in MediumRiskFixes THEN "medium" ELSE "low"

AssessFixRisk(strategy) ==
  IF strategy \in HighRiskFixes THEN "high"
  ELSE IF strategy \in MediumRiskFixes THEN "medium"
  ELSE "low"


(***************************************************************************)
(* State of the fixer.  A file's content is a number: 1 is the content     *)
(* the file starts with, 0 the empty content an interrupted write leaves.  *)
(***************************************************************************)
FixCalls == 1..MaxInFlight
BackupIds == 1..MaxAttempts
Missing == -1
OriginalContent == 1
Truncated == 0

\* the text a fix writes is computed from the text it read
Edit(content) == content + 2

\* calculateChecksum: sha256 of the content (collision-free)
CalculateChecksum(content) == <<"sha256", content>>

\* a BackupMetadata entry, reduced to the fields restore and validate read
NoMetadata ==
  [filePath |-> "none", checksum |-> <<"none", 0>>, timestamp |-> 0]

NoDiag == Diag("none", JsFile, {})

NoFix ==
  [pc |-> "idle", err |-> NoDiag, force |-> FALSE, originalSafeMode |-> FALSE,
   gated |-> FALSE, backupId |-> 0, pre |-> 0, bkContent |-> 0,
   newContent |-> 0, outcome |-> "none", success |-> FALSE,
   reason |-> "none", writes |-> 0, writeFailed |-> FALSE,
   validationFailed |-> FALSE, restored |-> FALSE]

FixInit ==
  /\ config \in [safeMode : BOOLEAN, backupEnabled : BOOLEAN,
                 validateFixes : BOOLEAN]
  /\ eslint \in BOOLEAN
  /\ fs = [f \in Files |-> OriginalContent]
  /\ blobs = [b \in BackupIds |-> Missing]
  /\ backupMetadata = [b \in BackupIds |-> NoMetadata]
  /\ metadataFile = {}
  /\ call = [c \in FixCalls |-> NoFix]
  /\ fixCount = 0

HasMetadata(b) == backupMetadata[b] # NoMetadata

\* a plausible slip: no finally block, the setting is never put back
SafeModeAfter_NoFinally(c, cfg) == cfg

\* the finally block of forceApplyFix
SafeModeAfter(c, cfg) ==
  IF call[c].force
    THEN [cfg EXCEPT !.safeMode = call[c].originalSafeMode]
    ELSE cfg

\* applyFix returns a FixResult
Return(rec, ok, why) ==
  [rec EXCEPT !.pc = "done", !.outcome = "returned", !.success = ok,
              !.reason = why, !.bkContent = 0, !.newContent = 0]

\* applyFix rejects: an exception leaves it
Throw(rec, why) ==
  [rec EXCEPT !.pc = "done", !.outcome = "threw", !.success = FALSE,
              !.reason = why, !.bkContent = 0, !.newContent = 0]

\* a plausible slip: the backup step is skipped
AfterSafety_NoBackup(backupEnabled) == "applyInternal"

\* applyFix lines 162-171: the step after the safe-mode gates
AfterSafety(backupEnabled) ==
  IF backupEnabled THEN "backupRead" ELSE "applyInternal"

NoCallInFlight == \A d \in FixCalls : call[d].pc \in {"idle", "done"}

(***************************************************************************)
(* applyFix(error) / forceApplyFix(error) up to the first await: the       *)
(* canFixInSafeMode gate.                                                  *)
(***************************************************************************)
DoApplyFix(c, e, force) ==
  /\ call[c].pc \in {"idle", "done"}
  /\ \A d \in FixCalls : d < c => call[d].pc \notin {"idle", "done"}
  /\ fixCount < MaxAttempts
  /\ fixCount' = fixCount + 1
  /\ LET sm == IF force THEN FALSE ELSE config.safeMode
         rec == [NoFix EXCEPT !.err = e, !.force = force,
                              !.originalSafeMode = config.safeMode,
                              !.gated = sm, !.pre = fs[e.file]]
     IN
     IF sm /\ ~CanFixInSafeMode(e, eslint)
       THEN /\ call' = [call EXCEPT ![c] = Return(rec, FALSE,
                          "Fix blocked by safe mode - requires manual intervention")]
            /\ UNCHANGED config
       ELSE /\ call' = [call EXCEPT ![c] =
                          [rec EXCEPT !.pc = IF sm THEN "preview"
                                             ELSE AfterSafety(config.backupEnabled)]]
            /\ config' = [config EXCEPT !.safeMode = sm]
  /\ UNCHANGED <<eslint, fs, blobs, backupMetadata, metadataFile>>

\* applyFix / forceApplyFix called on the fixer itself
BeginFix(c, e, force) ==
  /\ UNCHANGED besidesFix
  /\ DoApplyFix(c, e, force)

\* a caller that serialises its remediation requests (spec section 5)
SerialBeginFix(c, e, force) == NoCallInFlight /\ BeginFix(c, e, force)

(***************************************************************************)
(* generateFixPreview; stat is the outcome of fs.stat on the file.         *)
(***************************************************************************)
StatOutcomes == {"small", "over 50KB", "throws"}

PreviewReason(e, stat) ==
  LET strategy == GetFixStrategy(e) IN
  IF strategy = Null THEN "Safe mode prevention: No fix strategy available"
  ELSE IF AssessFixRisk(strategy) = "high"
    THEN "Safe mode prevention: High-risk fix"
  ELSE IF stat = "throws" THEN "Safe mode prevention: Preview generation failed"
  ELSE IF stat = "over 50KB" THEN "Safe mode prevention: File too large"
  ELSE "proceed"

Preview(c, stat) ==
  /\ UNCHANGED <<besidesFix, fixCount>>
  /\ call[c].pc = "preview"
  /\ LET why == PreviewReason(call[c].err, stat) IN
     IF why # "proceed"
       THEN /\ call' = [call EXCEPT ![c] = Return(@, FALSE, why)]
            /\ config' = SafeModeAfter(c, config)
       ELSE /\ call' = [call EXCEPT ![c].pc = AfterSafety(config.backupEnabled)]
            /\ UNCHANGED config
  /\ UNCHANGED <<eslint, fs, blobs, backupMetadata, metadataFile>>

(***************************************************************************)
(* createEnhancedBackup, first half: readFile and stat of the target.      *)
(***************************************************************************)
BackupRead(c, ioOk) ==
  /\ UNCHANGED <<besidesFix, fixCount>>
  /\ call[c].pc = "backupRead"
  /\ IF ioOk
       THEN /\ call' = [call EXCEPT ![c].pc = "backupCopy",
                                    ![c].bkContent = fs[call[c].err.file]]
            /\ UNCHANGED config
       ELSE /\ call' = [call EXCEPT ![c] = Throw(@, "backup: read failed")]
            /\ config' = SafeModeAfter(c, config)
  /\ UNCHANGED <<eslint, fs, blobs, backupMetadata, metadataFile>>

(***************************************************************************)
(* createEnhancedBackup, second half: mkdir, copyFile, the metadata entry  *)
(* and saveBackupMetadata (which swallows its own I/O errors).             *)
(***************************************************************************)
BackupCopy(c, copyOk, saveOk) ==
  /\ UNCHANGED <<besidesFix, fixCount>>
  /\ call[c].pc = "backupCopy"
  /\ IF copyOk
       THEN \E b \in BackupIds :
              /\ ~HasMetadata(b) /\ blobs[b] = Missing
              /\ \A a \in BackupIds :
                   (~HasMetadata(a) /\ blobs[a] = Missing) => b <= a
              /\ blobs' = [blobs EXCEPT ![b] = fs[call[c].err.file]]
              /\ backupMetadata' = [backupMetadata EXCEPT ![b] =
                   [filePath |-> call[c].err.file,
                    checksum |-> CalculateChecksum(call[c].bkContent),
                    timestamp |-> today]]
              /\ metadataFile' =
                   IF saveOk
                     THEN {a \in BackupIds : a = b \/ HasMetadata(a)}
                     ELSE metadataFile
              /\ call' = [call EXCEPT ![c].pc = "applyInternal",
                                      ![c].backupId = b]
              /\ UNCHANGED config
       ELSE /\ call' = [call EXCEPT ![c] = Throw(@, "backup: copy failed")]
            /\ config' = SafeModeAfter(c, config)
            /\ UNCHANGED <<blobs, backupMetadata, metadataFile>>
  /\ UNCHANGED <<eslint, fs>>

(***************************************************************************)
(* applyFixInternal up to the write: the dispatch on the type, the         *)
(* strategy, and the read of the file.  r is what the read finds.          *)
(***************************************************************************)
ReadOutcomes == {"fixable", "nothing to fix", "throws"}

InternalFailure(e, eslintOn, r) ==
  IF e.type = "eslint"
    THEN IF ~eslintOn THEN "ESLint not available"
         ELSE IF r = "throws" THEN "lintFiles failed"
         ELSE IF r = "nothing to fix"
           THEN "No auto-fixes available for this ESLint error"
         ELSE "none"
    ELSE LET strategy == GetFixStrategy(e) IN
         IF strategy = Null THEN "No automatic fix available"
         ELSE IF strategy \in StubFixes THEN "requires manual intervention"
         ELSE IF r = "throws" THEN "read failed"
         ELSE IF r = "nothing to fix" THEN "nothing to fix"
         ELSE "none"

ApplyInternal(c, r) ==
  /\ UNCHANGED <<besidesFix, fixCount>>
  /\ call[c].pc = "applyInternal"
  /\ LET why == InternalFailure(call[c].err, eslint, r) IN
     IF why # "none"
       THEN /\ call' = [call EXCEPT ![c] = Return(@, FALSE, why)]
            /\ config' = SafeModeAfter(c, config)
       ELSE /\ call' = [call EXCEPT ![c].pc = "applyWrite",
                           ![c].newContent = Edit(fs[call[c].err.file])]
            /\ UNCHANGED config
  /\ UNCHANGED <<eslint, fs, blobs, backupMetadata, metadataFile>>

(***************************************************************************)
(* fs.writeFile(error.file, ...) of the fix, and the handling of the       *)
(* result in applyFix.  A failing write leaves the file as it was or       *)
(* truncated; the exception is caught inside applyFixStrategy /            *)
(* applyESLintFix and becomes a failed result.                             *)
(***************************************************************************)
WriteOutcomes == {"written", "fails", "fails truncated"}

ApplyWrite(c, w) ==
  /\ UNCHANGED <<besidesFix, fixCount>>
  /\ call[c].pc = "applyWrite"
  /\ LET f == call[c].err.file
         rec == [call[c] EXCEPT !.writes = @ + 1] IN
     IF w = "written"
       THEN /\ fs' = [fs EXCEPT ![f] = call[c].newContent]
            /\ IF config.validateFixes
                 THEN /\ call' = [call EXCEPT ![c] = [rec EXCEPT !.pc = "validate"]]
                      /\ UNCHANGED config
                 ELSE /\ call' = [call EXCEPT ![c] = Return(rec, TRUE, "none")]
                      /\ config' = SafeModeAfter(c, config)
       ELSE /\ fs' = [fs EXCEPT ![f] = IF w = "fails truncated"
                                         THEN Truncated ELSE @]
            /\ call' = [call EXCEPT ![c] =
                 Return([rec EXCEPT !.writeFailed = TRUE], FALSE, "write failed")]
            /\ config' = SafeModeAfter(c, config)
  /\ UNCHANGED <<eslint, blobs, backupMetadata, metadataFile>>

(***************************************************************************)
(* validateFix: the four checks in order; chk[x] is whether check x        *)
(* passes on the file as fixed.                                            *)
(***************************************************************************)
Checks == {"syntax", "typescript", "eslint", "size"}

\* the checks validateFix runs on file f
Applies(k, f, eslintOn) ==
  CASE k = "typescript" -> IsTsPath(f)
    [] k = "eslint" -> eslintOn
    [] OTHER -> TRUE

\* a plausible slip: the file-size ceiling is checked first
ValidateFix_SizeFirst(f, eslintOn, chk) ==
  IF ~chk["size"] THEN "File size exceeds maximum"
  ELSE IF ~chk["syntax"] THEN "Syntax error"
  ELSE IF IsTsPath(f) /\ ~chk["typescript"] THEN "TypeScript error"
  ELSE IF eslintOn /\ ~chk["eslint"] THEN "ESLint error"
  ELSE "valid"

\* validateFix: chk[k] is what check k finds on the file when it is run
ValidateFix(f, eslintOn, chk) ==
  IF ~chk["syntax"] THEN "Syntax error"
  ELSE IF IsTsPath(f) /\ ~chk["typescript"] THEN "TypeScript error"
  ELSE IF eslintOn /\ ~chk["eslint"] THEN "ESLint error"
  ELSE IF ~chk["size"] THEN "File size exceeds maximum"
  ELSE "valid"

Validate(c, chk) ==
  /\ UNCHANGED <<besidesFix, fixCount>>
  /\ call[c].pc = "validate"
  /\ LET why == ValidateFix(call[c].err.file, eslint, chk) IN
     IF why = "valid"
       THEN /\ call' = [call EXCEPT ![c] = Return(@, TRUE, "none")]
            /\ config' = SafeModeAfter(c, config)
     ELSE IF call[c].backupId # 0
       THEN /\ call' = [call EXCEPT ![c].pc = "restore",
                                    ![c].validationFailed = TRUE,
                                    ![c].reason = why]
            /\ UNCHANGED config
     ELSE /\ call' = [call EXCEPT ![c] =
               Return([@ EXCEPT !.validationFailed = TRUE], FALSE,
                      "Fix validation failed")]
          /\ config' = SafeModeAfter(c, config)
  /\ UNCHANGED <<eslint, fs, blobs, backupMetadata, metadataFile>>

(***************************************************************************)
(* validateBackup(backupId): the entry and the blob exist and the blob's   *)
(* checksum is the recorded one; any I/O error makes it false.             *)
(***************************************************************************)
ValidateBackup_NoChecksum(b, ioOk) ==
  /\ HasMetadata(b)
  /\ blobs[b] # Missing
  /\ ioOk

ValidateBackup(b, ioOk) ==
  /\ HasMetadata(b)
  /\ blobs[b] # Missing
  /\ ioOk
  /\ CalculateChecksum(blobs[b]) = backupMetadata[b].checksum

(***************************************************************************)
(* restoreEnhancedBackup(backupId) after a failed validation, and the      *)
(* failed result applyFix returns after it.                                *)
(***************************************************************************)
RestoreFailure_NoValidate(b, ioOk) ==
  IF ~HasMetadata(b) THEN "Backup not found in metadata"
  ELSE IF ~ioOk THEN "restore: I/O failed"
  ELSE IF blobs[b] = Missing THEN "Backup file not found"
  ELSE "none"

RestoreFailure(b, ioOk) ==
  IF ~HasMetadata(b) THEN "Backup not found in metadata"
  ELSE IF ~ioOk THEN "restore: I/O failed"
  ELSE IF blobs[b] = Missing THEN "Backup file not found"
  ELSE IF ~ValidateBackup(b, ioOk) THEN "Backup failed integrity check"
  ELSE "none"

\* a plausible slip: the restore reports success without copying the bytes
RestoreTarget_NoCopy(files, b) == files

\* fs.copyFile(backupPath, metadata.filePath)
RestoreTarget(files, b) ==
  [files EXCEPT ![backupMetadata[b].filePath] = blobs[b]]

Restore(c, ioOk) ==
  /\ UNCHANGED <<besidesFix, fixCount>>
  /\ call[c].pc = "restore"
  /\ LET b == call[c].backupId
         why == RestoreFailure(b, ioOk) IN
     IF why = "none"
       THEN /\ fs' = RestoreTarget(fs, b)
            /\ call' = [call EXCEPT ![c] =
                 Return([@ EXCEPT !.restored = TRUE], FALSE,
                        "Fix validation failed")]
       ELSE /\ call' = [call EXCEPT ![c] = Throw(@, why)]
            /\ UNCHANGED fs
  /\ config' = SafeModeAfter(c, config)
  /\ UNCHANGED <<eslint, blobs, backupMetadata, metadataFile>>

FixNext ==
  \/ \E c \in FixCalls, e \in Diagnostics, force \in BOOLEAN :
       SerialBeginFix(c, e, force)
  \/ \E c \in FixCalls, stat \in StatOutcomes : Preview(c, stat)
  \/ \E c \in FixCalls, ioOk \in BOOLEAN : BackupRead(c, ioOk)
  \/ \E c \in FixCalls, copyOk \in BOOLEAN, saveOk \in BOOLEAN :
       BackupCopy(c, copyOk, saveOk)
  \/ \E c \in FixCalls, r \in ReadOutcomes : ApplyInternal(c, r)
  \/ \E c \in FixCalls, w \in WriteOutcomes : ApplyWrite(c, w)
  \/ \E c \in FixCalls, chk \in [Checks -> BOOLEAN] : Validate(c, chk)
  \/ \E c \in FixCalls, ioOk \in BOOLEAN : Restore(c, ioOk)

(***************************************************************************)
(***************************************************************************)
(* Part III - LogParser (src/src/components/LogParser.ts)                  *)
(***************************************************************************)
(***************************************************************************)

(***************************************************************************)
(* Strings.  Text is held in strings; the JavaScript string operations the *)
(* parser uses are computed character by character.                        *)
(***************************************************************************)
Char(s, i) == SubSeq(s, i, i)

From(s, i) == SubSeq(s, i, Len(s))

\* String.prototype.includes
Includes(s, sub) ==
  \E i \in 1..(Len(s) - Len(sub) + 1) : SubSeq(s, i, i + Len(sub) - 1) = sub

LowerChar(ch) ==
  CASE ch = "A" -> "a"
    [] ch = "B" -> "b"
    [] ch = "C" -> "c"
    [] ch = "D" -> "d"
    [] ch = "E" -> "e"
    [] ch = "F" -> "f"
    [] ch = "G" -> "g"
    [] ch = "H" -> "h"
    [] ch = "I" -> "i"
    [] ch = "J" -> "j"
    [] ch = "K" -> "k"
    [] ch = "L" -> "l"
    [] ch = "M" -> "m"
    [] ch = "N" -> "n"
    [] ch = "O" -> "o"
    [] ch = "P" -> "p"
    [] ch = "Q" -> "q"
    [] ch = "R" -> "r"
    [] ch = "S" -> "s"
    [] ch = "T" -> "t"
    [] ch = "U" -> "u"
    [] ch = "V" -> "v"
    [] ch = "W" -> "w"
    [] ch = "X" -> "x"
    [] ch = "Y" -> "y"
    [] ch = "Z" -> "z"
    [] OTHER -> ch

RECURSIVE ToLowerCase(_)
\* String.prototype.toLowerCase, by halves
ToLowerCase(s) ==
  IF Len(s) = 0 THEN ""
  ELSE IF Len(s) = 1 THEN LowerChar(s)
  ELSE ToLowerCase(SubSeq(s, 1, Len(s) \div 2))
         \o ToLowerCase(From(s, Len(s) \div 2 + 1))

IsSpace(ch) == ch \in {" ", "\n", "\t", "\r"}

\* String.prototype.trim: from the first to the last non-space character
Trim(s) ==
  LET inked == {i \in 1..Len(s) : ~IsSpace(Char(s, i))} IN
  IF inked = {} THEN ""
  ELSE SubSeq(s, CHOOSE i \in inked : \A j \in inked : i <= j,
                 CHOOSE i \in inked : \A j \in inked : j <= i)

Digits == {"0", "1", "2", "3", "4", "5", "6", "7", "8", "9"}

DigitValue(ch) ==
  CASE ch = "0" -> 0 [] ch = "1" -> 1 [] ch = "2" -> 2 [] ch = "3" -> 3
    [] ch = "4" -> 4 [] ch = "5" -> 5 [] ch = "6" -> 6 [] ch = "7" -> 7
    [] ch = "8" -> 8 [] ch = "9" -> 9

RECURSIVE ParseDigits(_, _)
ParseDigits(s, acc) ==
  IF s = "" \/ Char(s, 1) \notin Digits
    THEN acc
    ELSE ParseDigits(From(s, 2), 10 * acc + DigitValue(Char(s, 1)))

\* parseInt on a capture of \d+
ParseInt(s) == ParseDigits(s, 0)

\* a || b on strings: the empty string is falsy
OrElse(a, b) == IF a = "" THEN b ELSE a

\* the escape character \x1b, which a string of the model cannot hold
Esc == "~"

RECURSIVE AnsiEnd(_, _)
\* the index of the m that closes [0-9;]*m starting at i, or 0
AnsiEnd(s, i) ==
  IF i > Len(s) THEN 0
  ELSE IF Char(s, i) = "m" THEN i
  ELSE IF Char(s, i) \in Digits \cup {";"} THEN AnsiEnd(s, i + 1)
  ELSE 0

\* an escape sequence \x1b\[[0-9;]*m starts at i
AnsiAt(s, i) ==
  /\ Char(s, i) = Esc
  /\ i < Len(s)
  /\ Char(s, i + 1) = "["
  /\ AnsiEnd(s, i + 2) > 0

RECURSIVE StripAnsi(_)
\* line.replace(/\x1b\[[0-9;]*m/g, ''), one escape sequence at a time
StripAnsi(s) ==
  LET starts == {i \in 1..Len(s) : AnsiAt(s, i)} IN
  IF starts = {} THEN s
  ELSE LET i == CHOOSE k \in starts : \A j \in starts : k <= j IN
       SubSeq(s, 1, i - 1) \o StripAnsi(From(s, AnsiEnd(s, i + 2) + 1))

\* cleanLogLine
CleanLogLine(line) == Trim(StripAnsi(line))

RECURSIVE SplitLines(_)
\* buffer.split('\n'), one line at a time
SplitLines(s) ==
  LET breaks == {i \in 1..Len(s) : Char(s, i) = "\n"} IN
  IF breaks = {} THEN <<s>>
  ELSE LET i == CHOOSE k \in breaks : \A j \in breaks : k <= j IN
       <<SubSeq(s, 1, i - 1)>> \o SplitLines(From(s, i + 1))

(***************************************************************************)
(* Sample output lines.                                                    *)
(***************************************************************************)
TsErrorLine == "a.ts(3,7): error TS2304: Cannot find name"
TsWarningLine == "a.ts(3,7): warning TS6133: unused x"
LintErrorLine == "b.js:4:1: error Missing semicolon (semi)"
LintWarningLine == "b.js:4:1: warning Trailing comma (comma)"
StackLine == "Error: boom\n  at b.js:4:1"
RuntimeLine == "Error: boom at f (b.js:4:1)"
ImportLine == "Module not found: Can't resolve 'x' in '/p'"
SyntaxLine == "SyntaxError: Unexpected token in b.js:4"
CompileLine == "Failed to compile. ./b.js"
BareCompileLine == "Failed to compile."
ShoutLine == "BUILD FAILED"
ProgressLine == "ready - started server"
EmptyLine == ""
SpacesLine == "  "
ColourOnlyLine == "~[0m"
ColouredTsErrorLine == " ~[31ma.ts(3,7): error TS2304: Cannot find name~[0m "
BothLine == "a.ts(3,7): error TS1: b.js:4:1: error x (y)"
ColonFileLine == "x.ts:y.ts(3,1): error TS1: m"
ColonMessageLine == "y.ts(3,1): error TS1: m:x.ts"
ZeroLine == "a.ts(0,0): error TS1: m"
KeyFileLine == "x.js:3:4:1: error m (r)"
KeyMessageLine == "x.js:3:1: error 4:m (r)"
\* TsErrorLine as it arrives when the stream is cut inside it
TsErrorHead == "a.ts(3,7): error TS2304: Cannot"
TsErrorTail == " find name"

\* lines as they arrive one per line in a chunk of output
BufferLines ==
  {TsErrorLine, TsWarningLine, LintErrorLine, CompileLine, ShoutLine,
   ProgressLine, EmptyLine, SpacesLine, ColouredTsErrorLine, ColonFileLine,
   ColonMessageLine}

\* inputs of parseLogLine
Lines ==
  BufferLines \cup
  {LintWarningLine, StackLine, RuntimeLine, ImportLine, SyntaxLine,
   BareCompileLine, ColourOnlyLine, BothLine, ZeroLine, KeyFileLine,
   KeyMessageLine, TsErrorHead, TsErrorTail}

(***************************************************************************)
(* The pattern table.  RegexGroups(p, text) is the capture groups of       *)
(* text.match(patterns[p].pattern) for the cleaned sample lines, <<>> when *)
(* the pattern does not match.                                             *)
(***************************************************************************)
PatternTable ==
  << [type |-> "typescript", severity |-> "error",
      fixCapability |-> "auto_fixable"],
     [type |-> "typescript", severity |-> "warning",
      fixCapability |-> "suggestion_available"],
     [type |-> "eslint", severity |-> "error",
      fixCapability |-> "auto_fixable"],
     [type |-> "build", severity |-> "error",
      fixCapability |-> "manual_required"],
     [type |-> "runtime", severity |-> "error",
      fixCapability |-> "manual_required"],
     [type |-> "import", severity |-> "error",
      fixCapability |-> "auto_fixable"],
     [type |-> "syntax", severity |-> "error",
      fixCapability |-> "manual_required"],
     [type |-> "build", severity |-> "error",
      fixCapability |-> "manual_required"] >>

Patterns == 1..Len(PatternTable)

RegexGroups(p, text) ==
  CASE
    p = 1 /\ text = "a.ts(3,7): error TS2304: Cannot find name" ->
      <<"a.ts", "3", "7", "2304", "Cannot find name">>
    []
    p = 1 /\ text = "a.ts(3,7): error TS2304: Cannot" ->
      <<"a.ts", "3", "7", "2304", "Cannot">>
    []
    p = 1 /\ text = "a.ts(3,7): error TS1: b.js:4:1: error x (y)" ->
      <<"a.ts", "3", "7", "1", "b.js:4:1: error x (y)">>
    []
    p = 1 /\ text = "x.ts:y.ts(3,1): error TS1: m" ->
      <<"x.ts:y.ts", "3", "1", "1", "m">>
    []
    p = 1 /\ text = "y.ts(3,1): error TS1: m:x.ts" ->
      <<"y.ts", "3", "1", "1", "m:x.ts">>
    []
    p = 1 /\ text = "a.ts(0,0): error TS1: m" ->
      <<"a.ts", "0", "0", "1", "m">>
    []
    p = 2 /\ text = "a.ts(3,7): warning TS6133: unused x" ->
      <<"a.ts", "3", "7", "6133", "unused x">>
    []
    p = 3 /\ text = "b.js:4:1: error Missing semicolon (semi)" ->
      <<"b.js", "4", "1", "error", "Missing semicolon", "semi">>
    []
    p = 3 /\ text = "b.js:4:1: warning Trailing comma (comma)" ->
      <<"b.js", "4", "1", "warning", "Trailing comma", "comma">>
    []
    p = 3 /\ text = "a.ts(3,7): error TS1: b.js:4:1: error x (y)" ->
      <<"a.ts(3,7): error TS1: b.js", "4", "1", "error", "x", "y">>
    []
    p = 4 /\ text = "Error: boom\n  at b.js:4:1" ->
      <<"boom", "b.js", "4", "1">>
    []
    p = 5 /\ text = "Error: boom at f (b.js:4:1)" ->
      <<"boom", "b.js", "4", "1">>
    []
    p = 6 /\ text = "Module not found: Can't resolve 'x' in '/p'" ->
      <<"x", "/p">>
    []
    p = 7 /\ text = "SyntaxError: Unexpected token in b.js:4" ->
      <<"Unexpected token", "b.js", "4">>
    []
    p = 8 /\ text = "Failed to compile. ./b.js" ->
      <<"./b.js">>
    []
    p = 3 /\ text = "x.js:3:4:1: error m (r)" ->
      <<"x.js:3", "4", "1", "error", "m", "r">>
    []
    p = 3 /\ text = "x.js:3:1: error 4:m (r)" ->
      <<"x.js", "3", "1", "error", "4:m", "r">>
    []
    OTHER -> <<>>

Matches(p, text) == RegexGroups(p, text) # <<>>

Undefined == "<undefined>"

\* what an extractor returns; severity is Undefined unless it sets one
Extracted(file, line, column, message, code, rule, severity) ==
  [file |-> file, line |-> line, column |-> column, message |-> message,
   code |-> code, rule |-> rule, severity |-> severity]

\* patterns[p].extractor(match), m being the capture groups
Extractor(p, m) ==
  CASE p \in {1, 2} ->
         Extracted(m[1], ParseInt(m[2]), ParseInt(m[3]), m[5],
                   "TS" \o m[4], Undefined, Undefined)
    [] p = 3 ->
         Extracted(m[1], ParseInt(m[2]), ParseInt(m[3]), m[5], Undefined,
                   m[6], IF m[4] = "error" THEN "error" ELSE "warning")
    [] p \in {4, 5} ->
         Extracted(m[2], ParseInt(m[3]), ParseInt(m[4]), m[1], Undefined,
                   Undefined, Undefined)
    [] p = 6 ->
         Extracted(m[2], 1, 1,
                   "Module not found: Can't resolve '" \o m[1] \o "'",
                   Undefined, Undefined, Undefined)
    [] p = 7 ->
         Extracted(m[2], ParseInt(m[3]), 1, m[1], Undefined, Undefined,
                   Undefined)
    [] p = 8 ->
         Extracted("unknown", 1, 1, OrElse(m[1], "Failed to compile"),
                   Undefined, Undefined, Undefined)

\* the ParsedError fields; type "none" stands for null
NoError ==
  [id |-> 0, type |-> "none", severity |-> "none", fixCapability |-> "none",
   message |-> "", code |-> Undefined, rule |-> Undefined, file |-> "",
   line |-> 0, column |-> 0, timestamp |-> 0, raw |-> ""]

CreateParsedError(p, x, rawLine, id, ts) ==
  [id |-> id, type |-> PatternTable[p].type,
   severity |-> IF x.severity = Undefined THEN PatternTable[p].severity
                ELSE x.severity,
   fixCapability |-> PatternTable[p].fixCapability,
   message |-> OrElse(x.message, "Unknown error"),
   code |-> x.code, rule |-> x.rule,
   file |-> x.file, line |-> x.line, column |-> x.column,
   timestamp |-> ts, raw |-> rawLine]

CreateUnknownError(line, id, ts) ==
  [id |-> id, type |-> "unknown", severity |-> "error",
   fixCapability |-> "no_fix", message |-> line, code |-> Undefined,
   rule |-> Undefined, file |-> "unknown", line |-> 1, column |-> 1,
   timestamp |-> ts, raw |-> line]

ErrorIndicators ==
  {"error", "Error:", "failed", "Failed", "exception", "Exception:",
   "cannot", "Cannot", "undefined", "null is not", "is not defined"}

LooksLikeError_CaseSensitive(line) ==
  \E indicator \in ErrorIndicators : Includes(line, indicator)

LooksLikeError(line) ==
  \E indicator \in ErrorIndicators :
    Includes(ToLowerCase(line), ToLowerCase(indicator))

RECURSIVE TryPatterns(_, _, _, _)
\* the for loop of parseLogLine from pattern p on
TryPatterns(p, cleanLine, id, ts) ==
  IF p > Len(PatternTable) THEN NoError
  ELSE IF Matches(p, cleanLine)
    THEN CreateParsedError(p, Extractor(p, RegexGroups(p, cleanLine)),
                           cleanLine, id, ts)
    ELSE TryPatterns(p + 1, cleanLine, id, ts)

\* parseLogLine; id is the randomUUID() it draws, ts its new Date()
ParseLogLine(line, id, ts) ==
  LET cleanLine == CleanLogLine(line) IN
  IF Trim(cleanLine) = "" THEN NoError
  ELSE IF TryPatterns(1, cleanLine, id, ts) # NoError
    THEN TryPatterns(1, cleanLine, id, ts)
  ELSE IF LooksLikeError(cleanLine) THEN CreateUnknownError(cleanLine, id, ts)
  ELSE NoError

RECURSIVE ParseLines(_, _, _)
\* the loop of parseLogBuffer; ids are drawn in order from id on
ParseLines(lines, id, ts) ==
  IF lines = <<>> THEN <<>>
  ELSE LET error == ParseLogLine(Head(lines), id, ts) IN
       IF error = NoError
         THEN ParseLines(Tail(lines), id, ts)
         ELSE <<error>> \o ParseLines(Tail(lines), id + 1, ts)

\* the dedup signature of deduplicateErrors
Signature(error) ==
  error.type \o ":" \o error.message \o ":" \o error.file \o ":"
    \o ToString(error.line)

RECURSIVE DedupFrom(_, _)
DedupFrom(errors, seen) ==
  IF errors = <<>> THEN <<>>
  ELSE IF Signature(Head(errors)) \in seen
    THEN DedupFrom(Tail(errors), seen)
    ELSE <<Head(errors)>>
           \o DedupFrom(Tail(errors), seen \cup {Signature(Head(errors))})

DeduplicateErrors(errors) == DedupFrom(errors, {})

ParseLogBuffer(buffer, id, ts) ==
  DeduplicateErrors(ParseLines(SplitLines(buffer), id, ts))

(***************************************************************************)
(* The parser as a machine: calls of parseLogLine and parseLogBuffer on    *)
(* sample input, each recorded with what it returned until the caller has  *)
(* taken the result.                                                       *)
(***************************************************************************)
RECURSIVE BuffersOf(_)
\* the buffers of n lines
BuffersOf(n) ==
  IF n = 1 THEN BufferLines
  ELSE {b \o "\n" \o l : b \in BuffersOf(n - 1), l \in BufferLines}

Buffers == UNION {BuffersOf(n) : n \in 1..MaxLines}

NoParse == [op |-> "none", input |-> ""]

ParInit ==
  /\ parseCall = NoParse
  /\ parseResult = <<>>
  /\ uuids = 0
  /\ parses = 0

ParIdle == ParInit

\* parseLogLine(line)
CallParseLogLine(line) ==
  /\ UNCHANGED besidesPar
  /\ parseCall = NoParse
  /\ parses < MaxParses
  /\ parses' = parses + 1
  /\ LET error == ParseLogLine(line, uuids + 1, 0) IN
     /\ parseResult' = IF error = NoError THEN <<>> ELSE <<error>>
     /\ uuids' = IF error = NoError THEN uuids ELSE uuids + 1
  /\ parseCall' = [op |-> "parseLogLine", input |-> line]

\* parseLogBuffer(buffer)
CallParseLogBuffer(buffer) ==
  /\ UNCHANGED besidesPar
  /\ parseCall = NoParse
  /\ parses < MaxParses
  /\ parses' = parses + 1
  /\ parseResult' = ParseLogBuffer(buffer, uuids + 1, 0)
  /\ uuids' = uuids + Len(ParseLines(SplitLines(buffer), uuids + 1, 0))
  /\ parseCall' = [op |-> "parseLogBuffer", input |-> buffer]

\* the caller takes the returned value
ParseReturn ==
  /\ UNCHANGED besidesPar
  /\ parseCall # NoParse
  /\ parseCall' = NoParse
  /\ parseResult' = <<>>
  /\ UNCHANGED <<uuids, parses>>

ParNext ==
  \/ \E line \in Lines : CallParseLogLine(line)
  \/ \E buffer \in Buffers : CallParseLogBuffer(buffer)
  \/ ParseReturn

(***************************************************************************)
(***************************************************************************)
(* Part IV: the error classifier (ErrorClassifier) and the monitor         *)
(* service (MonitorService)                                                *)
(***************************************************************************)
(***************************************************************************)

Max(a, b) == IF a >= b THEN a ELSE b

Min(a, b) == IF a <= b THEN a ELSE b

(***************************************************************************)
(* The message patterns of the classification rules are alternatives of    *)
(* literal parts separated by ".+": a pattern is a set of alternatives,    *)
(* each the sequence of its literal parts.                                 *)
(***************************************************************************)
RECURSIVE TestParts(_, _)
\* the parts occur in s in order, at least one character between two parts
TestParts(parts, s) ==
  IF Len(parts) = 1 THEN Includes(s, parts[1])
  ELSE \E i \in 1..Len(s) :
         /\ SubSeq(s, i, Min(Len(s), i + Len(parts[1]) - 1)) = parts[1]
         /\ TestParts(Tail(parts), From(s, i + Len(parts[1]) + 1))

\* RegExp.prototype.test
Test(pattern, s) == \E parts \in pattern : TestParts(parts, s)

Rule(pattern, priority) == [pattern |-> pattern, priority |-> priority]

\* classificationRules[].messagePatternsForPriority
MessagePatternsForPriority(type) ==
  CASE type = "typescript" ->
         <<Rule({<<"Cannot find module">>, <<"Module ", " not found">>}, 90),
           Rule({<<"Property ", " does not exist">>}, 80),
           Rule({<<"Type ", " is not assignable to type">>}, 70),
           Rule({<<"Missing return statement">>}, 60),
           Rule({<<"Unused variable">>, <<"is declared but never read">>},
                30)>>
    [] type = "eslint" ->
         <<Rule({<<"is not defined">>}, 85),
           Rule({<<"Unexpected token">>}, 80),
           Rule({<<"Missing semicolon">>}, 20),
           Rule({<<"Trailing comma">>}, 15),
           Rule({<<"Expected indentation">>}, 10)>>
    [] type = "build" ->
         <<Rule({<<"Failed to compile">>}, 95),
           Rule({<<"Module build failed">>}, 90),
           Rule({<<"SyntaxError">>}, 85),
           Rule({<<"ReferenceError">>}, 80)>>
    [] type = "runtime" ->
         <<Rule({<<"TypeError">>}, 85),
           Rule({<<"ReferenceError">>}, 80),
           Rule({<<"Cannot read property">>}, 75),
           Rule({<<"is not a function">>}, 70)>>
    [] type = "import" ->
         <<Rule({<<"Module not found">>}, 90),
           Rule({<<"Cannot resolve">>}, 85),
           Rule({<<"Invalid import">>}, 80)>>
    [] type = "syntax" ->
         <<Rule({<<"Unexpected token">>}, 95),
           Rule({<<"Missing">>}, 80),
           Rule({<<"Expected">>}, 75)>>

\* classificationRules[].autoFixablePatterns
AutoFixablePatterns(type) ==
  CASE type = "typescript" ->
         {{<<"Cannot find module">>}, {<<"Unused variable">>},
          {<<"Missing return statement in function">>},
          {<<"Property ", " does not exist on type ", " Did you mean">>}}
    [] type = "eslint" ->
         {{<<"Missing semicolon">>}, {<<"Trailing comma">>},
          {<<"Expected indentation">>}, {<<"Missing space">>},
          {<<"Quotes must be">>}}
    [] type = "build" ->
         {{<<"Missing dependency">>}, {<<"Incorrect file extension">>}}
    [] type = "runtime" -> {}
    [] type = "import" -> {{<<"Module not found">>}, {<<"Cannot resolve">>}}
    [] type = "syntax" -> {{<<"Missing semicolon">>}, {<<"Missing comma">>}}

\* the types that have a classification rule
RuleTypes == {"typescript", "eslint", "build", "runtime", "import", "syntax"}

\* message.split(' ')[0]
FirstWord(s) ==
  LET spaces == {i \in 1..Len(s) : Char(s, i) = " "} IN
  IF spaces = {} THEN s
  ELSE SubSeq(s, 1, (CHOOSE i \in spaces : \A j \in spaces : i <= j) - 1)

\* x || 'unknown' for an optional string
OrUnknown(x) == IF x = Undefined \/ x = "" THEN "unknown" ELSE x

\* classificationRules[].groupingStrategy
GroupingStrategy(error) ==
  CASE error.type = "typescript" -> "ts-" \o OrUnknown(error.code)
    [] error.type = "eslint" -> "eslint-" \o OrUnknown(error.rule)
    [] error.type = "build" -> "build-" \o error.file
    [] error.type = "runtime" -> "runtime-" \o FirstWord(error.message)
    [] error.type = "import" -> "import-" \o error.file
    [] error.type = "syntax" ->
         "syntax-" \o error.file \o "-" \o ToString(error.line)

FirstRulePriority_None(rules, message) == 0

RECURSIVE FirstRulePriority(_, _)
\* the priority of the first rule whose pattern the message passes, 0 if none
FirstRulePriority(rules, message) ==
  IF rules = <<>> THEN 0
  ELSE IF Test(Head(rules).pattern, message) THEN Head(rules).priority
  ELSE FirstRulePriority(Tail(rules), message)

CalculatePriority_WarningUp(error) ==
  LET base == IF error.severity = "error" THEN 50 ELSE 25
      matched == Max(base,
                     FirstRulePriority(MessagePatternsForPriority(error.type),
                                       error.message))
      boosted == IF error.type \in {"build", "syntax"} THEN matched + 10
                 ELSE matched
      reduced == IF error.severity = "warning" THEN boosted + 20
                 ELSE boosted
  IN Min(100, Max(1, reduced))

\* calculatePriority
CalculatePriority(error) ==
  LET base == IF error.severity = "error" THEN 50 ELSE 25
      matched == Max(base,
                     FirstRulePriority(MessagePatternsForPriority(error.type),
                                       error.message))
      boosted == IF error.type \in {"build", "syntax"} THEN matched + 10
                 ELSE matched
      reduced == IF error.severity = "warning" THEN Max(1, boosted - 20)
                 ELSE boosted
  IN Min(100, Max(1, reduced))

\* isAutoFixable
IsAutoFixable(error) ==
  \/ error.fixCapability = "auto_fixable"
  \/ \E pattern \in AutoFixablePatterns(error.type) :
       Test(pattern, error.message)

\* the ClassifiedError of a ParsedError and its classification
Classified(error, priority, groupId, autoFixable) ==
  [id |-> error.id, type |-> error.type, severity |-> error.severity,
   fixCapability |-> error.fixCapability, message |-> error.message,
   code |-> error.code, rule |-> error.rule, file |-> error.file,
   line |-> error.line, column |-> error.column,
   timestamp |-> error.timestamp, raw |-> error.raw,
   priority |-> priority, groupId |-> groupId, relatedErrors |-> <<>>,
   autoFixable |-> autoFixable]

\* createDefaultClassification
CreateDefaultClassification(error) ==
  Classified(error, 50, Undefined, error.fixCapability = "auto_fixable")

\* classifyError
ClassifyError(error) ==
  IF error.type \notin RuleTypes THEN CreateDefaultClassification(error)
  ELSE Classified(error, CalculatePriority(error), GroupingStrategy(error),
                  IsAutoFixable(error))

IdsOfOthers_All(groupErrors, error) ==
  [i \in DOMAIN groupErrors |-> groupErrors[i].id]

RECURSIVE IdsOfOthers(_, _)
\* groupErrors.filter(e => e.id !== error.id).map(e => e.id)
IdsOfOthers(groupErrors, error) ==
  IF groupErrors = <<>> THEN <<>>
  ELSE IF Head(groupErrors).id # error.id
    THEN <<Head(groupErrors).id>> \o IdsOfOthers(Tail(groupErrors), error)
    ELSE IdsOfOthers(Tail(groupErrors), error)

RECURSIVE GroupOf(_, _)
\* groups.get(groupId): the errors of a group in the order of the batch
GroupOf(errors, groupId) ==
  IF errors = <<>> THEN <<>>
  ELSE IF Head(errors).groupId = groupId
    THEN <<Head(errors)>> \o GroupOf(Tail(errors), groupId)
    ELSE GroupOf(Tail(errors), groupId)

\* groupRelatedErrors
GroupRelatedErrors(errors) ==
  [i \in DOMAIN errors |->
     IF /\ errors[i].groupId # Undefined
        /\ Len(GroupOf(errors, errors[i].groupId)) > 1
       THEN [errors[i] EXCEPT
               !.relatedErrors =
                  IdsOfOthers(GroupOf(errors, errors[i].groupId), errors[i])]
       ELSE errors[i]]

RECURSIVE InsertByPriority_BeforeTies(_, _)
InsertByPriority_BeforeTies(sorted, error) ==
  IF sorted = <<>> THEN <<error>>
  ELSE IF Head(sorted).priority > error.priority
    THEN <<Head(sorted)>> \o InsertByPriority_BeforeTies(Tail(sorted), error)
    ELSE <<error>> \o sorted

RECURSIVE InsertByPriority(_, _)
\* error put behind every element of sorted whose priority is not lower
InsertByPriority(sorted, error) ==
  IF sorted = <<>> THEN <<error>>
  ELSE IF Head(sorted).priority >= error.priority
    THEN <<Head(sorted)>> \o InsertByPriority(Tail(sorted), error)
    ELSE <<error>> \o sorted

RECURSIVE SortByPriority(_, _)
\* classified.sort((a, b) => b.priority - a.priority), a stable sort
SortByPriority(errors, sorted) ==
  IF errors = <<>> THEN sorted
  ELSE SortByPriority(Tail(errors), InsertByPriority(sorted, Head(errors)))

\* classifyErrors
ClassifyErrors(errors) ==
  SortByPriority(
    GroupRelatedErrors([i \in DOMAIN errors |-> ClassifyError(errors[i])]),
    <<>>)

(***************************************************************************)
(* MonitorService.  The process manager and the auto-fixer are the         *)
(* collaborators handed to its constructor and are taken by their          *)
(* interfaces: monChild is the child of the process manager as the service *)
(* can see it, and a fix ends with a successful result, a failed result or *)
(* a rejection.                                                            *)
(***************************************************************************)

\* the chunks of output the child writes
OutputChunks ==
  {TsErrorLine, ShoutLine, ProgressLine, KeyMessageLine,
   KeyFileLine \o "\n" \o TsErrorLine,
   LintErrorLine \o "\n" \o ColouredTsErrorLine \o "\n" \o LintErrorLine,
   ZeroLine \o "\n" \o ColonFileLine \o "\n" \o ShoutLine}

\* the autoFix setting of the config passed to start
AutoFixSettings == BOOLEAN

ZeroRate == [fixes |-> 0, errors |-> 1]

\* resetMetrics; successRate is kept as the fraction it was computed from,
\* fixes / errors * 100
NoMetrics == [errorsDetected |-> 0, fixesApplied |-> 0, successRate |-> ZeroRate]

NoAutoFix == [state |-> "none", id |-> 0, result |-> "none"]

NoErrors == [key \in {} |-> NoError]

MonInit ==
  /\ monChild = "none"
  /\ autoFixer \in BOOLEAN
  /\ currentErrors = NoErrors
  /\ metrics = NoMetrics
  /\ autoFix = NoAutoFix
  /\ emitted = <<>>
  /\ nextId = 1
  /\ now = 0
  /\ monCalls = [starts |-> 0, fixes |-> 0, steps |-> 0]

\* one more step of the service, within the budget of the run
MonStep(starts, fixes) ==
  /\ monCalls.steps < MaxMonSteps
  /\ monCalls.starts + starts <= MaxMonStarts
  /\ monCalls.fixes + fixes <= MaxAutoFixes
  /\ monCalls' = [starts |-> monCalls.starts + starts,
                  fixes |-> monCalls.fixes + fixes,
                  steps |-> monCalls.steps + 1]

\* isRunning, through processManager.isRunning()
MonIsRunning == monChild = "running"

\* start(projectPath, config) up to and including the spawn of the child;
\* of the config, the autoFix setting
DoMonStart(autoFixSetting) ==
  /\ MonStep(1, 0)
  /\ ~MonIsRunning
  /\ currentErrors' = NoErrors
  /\ metrics' = NoMetrics
  /\ autoFixer' = (autoFixer \/ autoFixSetting)
  /\ monChild' = "running"
  /\ emitted' = <<>>
  /\ UNCHANGED <<autoFix, nextId, now>>

\* start called with a config of which only the autoFix setting matters
MonStart(autoFixSetting) ==
  /\ UNCHANGED besidesMon
  /\ DoMonStart(autoFixSetting)

\* the 'exit' event of the process manager
MonExit ==
  /\ UNCHANGED besidesMon
  /\ monChild = "running"
  /\ monChild' = "exited"
  /\ emitted' = <<"statusChange">>
  /\ MonStep(0, 0)
  /\ UNCHANGED <<autoFixer, currentErrors, metrics, autoFix, nextId, now>>

\* the streams of an exited child end
MonStreamsEnd ==
  /\ UNCHANGED besidesMon
  /\ monChild = "exited"
  /\ monChild' = "closed"
  /\ emitted' = <<>>
  /\ MonStep(0, 0)
  /\ UNCHANGED <<autoFixer, currentErrors, metrics, autoFix, nextId, now>>

\* the dedup key of handleNewError
ErrorKey(error) ==
  error.type \o ":" \o error.file \o ":" \o ToString(error.line) \o ":"
    \o error.message

\* the live set, the metrics and the events after handleNewError(error)
HandleNewError_AlwaysNew(live, error) ==
  [errors |-> [key \in DOMAIN live.errors \cup {ErrorKey(error)} |->
                 IF key = ErrorKey(error) THEN error ELSE live.errors[key]],
   metrics |-> [live.metrics EXCEPT !.errorsDetected = @ + 1],
   emitted |-> live.emitted \o <<"newError">>]

HandleNewError(live, error) ==
  IF ErrorKey(error) \notin DOMAIN live.errors
    THEN [errors |-> [key \in DOMAIN live.errors \cup {ErrorKey(error)} |->
                        IF key = ErrorKey(error) THEN error
                        ELSE live.errors[key]],
          metrics |-> [live.metrics EXCEPT !.errorsDetected = @ + 1],
          emitted |-> live.emitted \o <<"newError">>]
    ELSE [live EXCEPT
            !.errors[ErrorKey(error)].timestamp = error.timestamp]

RECURSIVE HandleAll(_, _)
\* the for loop of processLogOutput
HandleAll(live, errors) ==
  IF errors = <<>> THEN live
  ELSE HandleAll(HandleNewError(live, Head(errors)), Tail(errors))

\* the classified errors processLogOutput handles for a chunk
Observed(data, id, ts) == ClassifyErrors(ParseLogBuffer(data, id, ts))

\* processLogOutput(data), on 'stdout' and 'stderr' of the process manager
ProcessLogOutput(data) ==
  /\ UNCHANGED besidesMon
  /\ monChild \in {"running", "exited"}
  /\ now < MaxChunks
  /\ now' = now + 1
  /\ nextId' = nextId + Len(ParseLines(SplitLines(data), nextId, now + 1))
  /\ LET after == HandleAll([errors |-> currentErrors, metrics |-> metrics,
                             emitted |-> <<>>],
                            Observed(data, nextId, now + 1))
     IN /\ currentErrors' = after.errors
        /\ metrics' = after.metrics
        /\ emitted' = after.emitted
  /\ MonStep(0, 0)
  /\ UNCHANGED <<monChild, autoFixer, autoFix>>

\* the keys of the live entries with an id
KeysOfId(errors, id) == {key \in DOMAIN errors : errors[key].id = id}

\* markErrorResolved(errorId) on a live set; the ids of the live entries are
\* distinct, so the first entry with the id is the only one
MarkErrorResolved(errors, id) ==
  [key \in DOMAIN errors \ KeysOfId(errors, id) |-> errors[key]]

\* incrementFixesApplied
IncrementFixesApplied_NoCount(m) == m

IncrementFixesApplied(m) ==
  [m EXCEPT
     !.fixesApplied = @ + 1,
     !.successRate = IF m.errorsDetected > 0
                       THEN [fixes |-> m.fixesApplied + 1,
                             errors |-> m.errorsDetected]
                       ELSE ZeroRate]

\* applyAutoFix(error) for an error of the live set, up to its first await
\* or its early return
ApplyAutoFix(key) ==
  /\ UNCHANGED besidesMon
  /\ MonStep(0, 1)
  /\ autoFix.state # "fixing"
  /\ key \in DOMAIN currentErrors
  /\ autoFix' =
       IF ~autoFixer \/ ~currentErrors[key].autoFixable
         THEN [state |-> "returned", id |-> currentErrors[key].id,
               result |-> "failed"]
         ELSE [state |-> "fixing", id |-> currentErrors[key].id,
               result |-> "none"]
  /\ emitted' = <<>>
  /\ UNCHANGED <<monChild, autoFixer, currentErrors, metrics, nextId, now>>

\* what autoFixer.applyFix(error) ends with
FixOutcomes == {"success", "failed", "threw"}

\* applyAutoFix after autoFixer.applyFix has settled
AutoFixSettles(outcome) ==
  /\ UNCHANGED besidesMon
  /\ autoFix.state = "fixing"
  /\ autoFix' = [autoFix EXCEPT
                   !.state = "returned",
                   !.result = IF outcome = "success" THEN "success"
                              ELSE "failed"]
  /\ IF outcome = "success"
       THEN /\ metrics' = IncrementFixesApplied(metrics)
            /\ currentErrors' = MarkErrorResolved(currentErrors, autoFix.id)
            /\ emitted' =
                 IF KeysOfId(currentErrors, autoFix.id) # {}
                   THEN <<"errorResolved", "errorResolved">>
                   ELSE <<"errorResolved">>
       ELSE /\ emitted' = <<>>
            /\ UNCHANGED <<metrics, currentErrors>>
  /\ MonStep(0, 0)
  /\ UNCHANGED <<monChild, autoFixer, nextId, now>>

MonNext ==
  \/ \E autoFixSetting \in AutoFixSettings : MonStart(autoFixSetting)
  \/ MonExit
  \/ MonStreamsEnd
  \/ \E data \in OutputChunks : ProcessLogOutput(data)
  \/ \E key \in DOMAIN currentErrors : ApplyAutoFix(key)
  \/ \E outcome \in FixOutcomes : AutoFixSettles(outcome)

(***************************************************************************)
(***************************************************************************)
(* Part V: the backup store of the AutoFixer (src/unnamed/part_001):       *)
(* createEnhancedBackup, restoreEnhancedBackup, validateBackup and         *)
(* cleanupOldBackups called one at a time, as its test suite calls them,   *)
(* while the project's files are written to, backup files are damaged or   *)
(* deleted, and days pass.                                                 *)
(***************************************************************************)
(***************************************************************************)

\* config.backupRetentionDays || 7
RetentionDays ==
  IF BackupRetentionDays = 0 THEN 7 ELSE BackupRetentionDays

\* what can be written to a file of the project
Contents == {Truncated, OriginalContent, Edit(OriginalContent)}

\* a damaged copy of a backup file
Damaged(content) == IF content = Truncated THEN OriginalContent ELSE Truncated

\* the days that pass in one step
DaySteps == {1, RetentionDays}

\* found is the content a restore found in its target
NoBakOp ==
  [op |-> "none", id |-> 0, result |-> "none", failed |-> {}, found |-> 0]

BakInit ==
  /\ today = 0
  /\ captured = [b \in BackupIds |-> Missing]
  /\ bakOp = NoBakOp
  /\ bakSteps = 0

BakIdle == BakInit

\* one more step within the budget of the run
BakStep ==
  /\ bakSteps < MaxBakSteps
  /\ bakSteps' = bakSteps + 1

\* the backup ids not in use
FreeIds == {b \in BackupIds : ~HasMetadata(b) /\ blobs[b] = Missing}

\* fs.copyFile(filePath, backupPath)
BackupBlob(files, f) == files[f]

\* createEnhancedBackup(filePath, fixType, description)
CreateEnhancedBackup(f, ioOk, saveOk) ==
  /\ UNCHANGED besidesBak
  /\ BakStep
  /\ FreeIds # {}
  /\ LET b == CHOOSE a \in FreeIds : \A x \in FreeIds : a <= x IN
     IF ioOk
       THEN /\ blobs' = [blobs EXCEPT ![b] = BackupBlob(fs, f)]
            /\ backupMetadata' = [backupMetadata EXCEPT ![b] =
                 [filePath |-> f, checksum |-> CalculateChecksum(fs[f]),
                  timestamp |-> today]]
            /\ metadataFile' =
                 IF saveOk THEN {a \in BackupIds : a = b \/ HasMetadata(a)}
                 ELSE metadataFile
            /\ captured' = [captured EXCEPT ![b] = fs[f]]
            /\ bakOp' = [NoBakOp EXCEPT !.op = "create", !.id = b,
                                         !.result = "created"]
       ELSE /\ bakOp' = [NoBakOp EXCEPT !.op = "create",
                                         !.result = "threw"]
            /\ UNCHANGED <<blobs, backupMetadata, metadataFile, captured>>
  /\ UNCHANGED <<fs, today>>

\* something writes a file of the project
WriteTarget(f, content) ==
  /\ UNCHANGED besidesBak
  /\ BakStep
  /\ fs[f] # content
  /\ fs' = [fs EXCEPT ![f] = content]
  /\ bakOp' = NoBakOp
  /\ UNCHANGED <<blobs, backupMetadata, metadataFile, captured, today>>

\* a backup file is damaged
DamageBlob(b) ==
  /\ UNCHANGED besidesBak
  /\ BakStep
  /\ blobs[b] # Missing
  /\ blobs' = [blobs EXCEPT ![b] = Damaged(@)]
  /\ bakOp' = NoBakOp
  /\ UNCHANGED <<fs, backupMetadata, metadataFile, captured, today>>

\* a backup file is deleted
RemoveBlob(b) ==
  /\ UNCHANGED besidesBak
  /\ BakStep
  /\ blobs[b] # Missing
  /\ blobs' = [blobs EXCEPT ![b] = Missing]
  /\ bakOp' = NoBakOp
  /\ UNCHANGED <<fs, backupMetadata, metadataFile, captured, today>>

\* days pass
DaysPass(d) ==
  /\ UNCHANGED besidesBak
  /\ BakStep
  /\ today + d <= MaxDay
  /\ today' = today + d
  /\ bakOp' = NoBakOp
  /\ UNCHANGED <<fs, blobs, backupMetadata, metadataFile, captured>>

\* restoreEnhancedBackup(backupId)
RestoreEnhancedBackup(b, ioOk) ==
  /\ UNCHANGED besidesBak
  /\ BakStep
  /\ LET why == RestoreFailure(b, ioOk) IN
     IF why = "none"
       THEN /\ fs' = RestoreTarget(fs, b)
            /\ bakOp' = [NoBakOp EXCEPT
                           !.op = "restore", !.id = b, !.result = "restored",
                           !.found = fs[backupMetadata[b].filePath]]
       ELSE /\ bakOp' = [NoBakOp EXCEPT !.op = "restore", !.id = b,
                                         !.result = why]
            /\ UNCHANGED fs
  /\ UNCHANGED <<blobs, backupMetadata, metadataFile, captured, today>>

\* validateBackup(backupId)
CallValidateBackup(b, ioOk) ==
  /\ UNCHANGED besidesBak
  /\ BakStep
  /\ bakOp' = [NoBakOp EXCEPT
                 !.op = "validate", !.id = b,
                 !.result = IF ValidateBackup(b, ioOk) THEN "true"
                            ELSE "false"]
  /\ UNCHANGED <<fs, blobs, backupMetadata, metadataFile, captured, today>>

\* metadata.timestamp < cutoffDate
OlderThanCutoff_Inclusive(timestamp, cutoff) == timestamp <= cutoff

OlderThanCutoff(timestamp, cutoff) == timestamp < cutoff

\* backupsToDelete of cleanupOldBackups
BackupsToDelete ==
  {b \in BackupIds :
     /\ HasMetadata(b)
     /\ OlderThanCutoff(backupMetadata[b].timestamp, today - RetentionDays)}

\* cleanupOldBackups(); failing are the backups whose file cannot be
\* deleted: readdir or unlink throws, and the entry is kept
CleanupOldBackups(failing, saveOk) ==
  /\ UNCHANGED besidesBak
  /\ BakStep
  /\ failing \subseteq BackupsToDelete
  /\ blobs' = [b \in BackupIds |->
                 IF b \in BackupsToDelete \ failing THEN Missing
                 ELSE blobs[b]]
  /\ backupMetadata' = [b \in BackupIds |->
                          IF b \in BackupsToDelete \ failing THEN NoMetadata
                          ELSE backupMetadata[b]]
  /\ metadataFile' =
       IF BackupsToDelete # {} /\ saveOk
         THEN {b \in BackupIds : HasMetadata(b)} \ (BackupsToDelete \ failing)
         ELSE metadataFile
  /\ bakOp' = [NoBakOp EXCEPT !.op = "cleanup", !.result = "done",
                               !.failed = failing]
  /\ UNCHANGED <<fs, captured, today>>

BakNext ==
  \/ \E f \in Files, ioOk \in BOOLEAN, saveOk \in BOOLEAN :
       CreateEnhancedBackup(f, ioOk, saveOk)
  \/ \E f \in Files, content \in Contents : WriteTarget(f, content)
  \/ \E b \in BackupIds : DamageBlob(b)
  \/ \E b \in BackupIds : RemoveBlob(b)
  \/ \E d \in DaySteps : DaysPass(d)
  \/ \E b \in BackupIds, ioOk \in BOOLEAN : RestoreEnhancedBackup(b, ioOk)
  \/ \E b \in BackupIds, ioOk \in BOOLEAN : CallValidateBackup(b, ioOk)
  \/ \E failing \in SUBSET BackupIds, saveOk \in BOOLEAN :
       CleanupOldBackups(failing, saveOk)

(***************************************************************************)
(***************************************************************************)
(* Part VI: the error classifier as a machine: calls of classifyError and  *)
(* classifyErrors on sample diagnostics, each recorded with what it        *)
(* returned until the caller has taken the result.                         *)
(***************************************************************************)
(***************************************************************************)

\* ErrorType
ErrorTypes ==
  {"typescript", "eslint", "build", "runtime", "import", "syntax", "unknown"}

\* ErrorSeverity
Severities == {"error", "warning", "info"}

\* a ParsedError as the callers of the classifier build it
TestError(type, message, severity, fixCapability, file, code, rule) ==
  [id |-> 0, type |-> type, severity |-> severity,
   fixCapability |-> fixCapability, message |-> message, code |-> code,
   rule |-> rule, file |-> file, line |-> 10, column |-> 5, timestamp |-> 0,
   raw |-> message]

\* messages of diagnostics, with and without a priority pattern in them
Messages ==
  {"Type 'a' is not assignable to type 'b'", "Trailing comma not allowed",
   "Expected indentation of 2 spaces", "Failed to compile",
   "x is not defined: Unexpected token", "Property does not exist",
   "Property x does not exist", "Missing semicolon", "boom"}

\* the inputs of classifyError
ParsedErrors ==
  {TestError(type, message, severity, "manual_required", "a.ts",
             IF type = "typescript" THEN "TS2322" ELSE Undefined,
             IF type = "eslint" THEN "semi" ELSE Undefined) :
     type \in ErrorTypes, message \in Messages, severity \in Severities}

\* the diagnostics the batches of classifyErrors are made of
BatchErrors ==
  {TestError("typescript", "Type 'a' is not assignable to type 'b'", "error",
             "manual_required", "a.ts", "TS2322", Undefined),
   TestError("typescript", "Type 'a' is not assignable to type 'b'",
             "warning", "manual_required", "a.ts", "TS2322", Undefined),
   TestError("typescript", "Type error 1", "error", "auto_fixable", "b.ts",
             "TS2322", Undefined),
   TestError("eslint", "Trailing comma not allowed", "warning",
             "auto_fixable", "c.js", Undefined, "comma-dangle"),
   TestError("eslint", "Trailing comma not allowed", "error",
             "auto_fixable", "c.js", Undefined, "comma-dangle"),
   TestError("build", "Failed to compile", "error", "manual_required",
             "a.ts", Undefined, Undefined),
   TestError("build", "Failed to compile", "warning", "manual_required",
             "a.ts", Undefined, Undefined),
   TestError("unknown", "boom", "error", "no_fix", "a.ts", Undefined,
             Undefined)}

\* the batches: the i-th diagnostic of a batch carries the id i
Batches ==
  {[i \in DOMAIN shape |-> [shape[i] EXCEPT !.id = i]] :
     shape \in UNION {[1..n -> BatchErrors] : n \in 1..MaxBatch}}

NoRank == [op |-> "none", input |-> <<>>]

ClsInit ==
  /\ rankCall = NoRank
  /\ rankResult = <<>>

ClsIdle == ClsInit

\* classifyError(error)
CallClassifyError(error) ==
  /\ UNCHANGED besidesCls
  /\ rankCall = NoRank
  /\ rankCall' = [op |-> "classifyError", input |-> <<error>>]
  /\ rankResult' = <<ClassifyError(error)>>

\* classifyErrors(errors)
CallClassifyErrors(errors) ==
  /\ UNCHANGED besidesCls
  /\ rankCall = NoRank
  /\ rankCall' = [op |-> "classifyErrors", input |-> errors]
  /\ rankResult' = ClassifyErrors(errors)

\* the caller takes the returned value
RankReturn ==
  /\ UNCHANGED besidesCls
  /\ rankCall # NoRank
  /\ rankCall' = NoRank
  /\ rankResult' = <<>>

ClsNext ==
  \/ \E error \in ParsedErrors : CallClassifyError([error EXCEPT !.id = 1])
  \/ \E errors \in Batches : CallClassifyErrors(errors)
  \/ RankReturn

(***************************************************************************)
(***************************************************************************)
(* Part VII: the apply_fix tool (src/unnamed/part_005).  A request names   *)
(* an error of the live set and carries createBackup; the tool hands the   *)
(* error to MonitorService.applyAutoFix, which calls AutoFixer.applyFix.   *)
(* Requests are handled as they arrive: one may begin while the fix of an  *)
(* earlier one awaits its file operations.                                 *)
(***************************************************************************)
(***************************************************************************)

\* what the tool finds for errorId
Lookups ==
  {"no service", "not found", "not fixable", "no fixer", "found"}

\* the errors of the live set the requests name
ToolDiagnostics ==
  { Diag("typescript", ApiFile, {"type assertion"}),
    Diag("import", JsFile, {"file extension"}) }

\* the configurations of the fixer the tool runs with
ToolConfigs ==
  {[safeMode |-> TRUE, backupEnabled |-> TRUE, validateFixes |-> TRUE],
   [safeMode |-> FALSE, backupEnabled |-> TRUE, validateFixes |-> TRUE],
   [safeMode |-> FALSE, backupEnabled |-> FALSE, validateFixes |-> FALSE]}

\* a request that reached the fixer, by the applyFix call it made
NoTool == [state |-> "none", createBackup |-> FALSE]

\* made: the requests that reached the fixer; refused: the error fields of
\* the results returned without calling it
ToolInit ==
  toolCall = [made |-> [c \in FixCalls |-> NoTool], refused |-> <<>>]

ToolIdle == ToolInit

\* the error field of the result the tool returns without calling the fixer
ToolRefusal(lookup) ==
  CASE lookup = "no service" -> "Monitor service not available"
    [] lookup = "not found" -> "Error with ID not found"
    [] lookup = "not fixable" -> "This error is not auto-fixable"
    [] lookup = "no fixer" ->
         "AutoFixer not initialized - ensure autoFix is enabled in config"

\* applyFix(input) of the tool, up to the first await of AutoFixer.applyFix
ToolApplyFix(c, e, lookup, createBackup) ==
  /\ UNCHANGED <<supVars, parVars, monVars, bakVars, clsVars, valVars,
                 sesVars>>
  /\ IF lookup = "found"
       THEN /\ DoApplyFix(c, e, FALSE)
            /\ toolCall' = [toolCall EXCEPT !.made[c] =
                 [state |-> "applying", createBackup |-> createBackup]]
       ELSE /\ c = 1
            /\ Len(toolCall.refused) < MaxRefusals
            /\ toolCall' = [toolCall EXCEPT
                              !.refused = Append(@, ToolRefusal(lookup))]
            /\ UNCHANGED fixVars

ToolNext ==
  \/ \E c \in FixCalls, e \in ToolDiagnostics, lookup \in Lookups,
        createBackup \in BOOLEAN : ToolApplyFix(c, e, lookup, createBackup)
  \/ \E c \in FixCalls, stat \in StatOutcomes : Preview(c, stat)
  \/ \E c \in FixCalls, ioOk \in BOOLEAN : BackupRead(c, ioOk)
  \/ \E c \in FixCalls, copyOk \in BOOLEAN, saveOk \in BOOLEAN :
       BackupCopy(c, copyOk, saveOk)
  \/ \E c \in FixCalls, r \in ReadOutcomes : ApplyInternal(c, r)
  \/ \E c \in FixCalls, w \in WriteOutcomes : ApplyWrite(c, w)
  \/ \E c \in FixCalls, chk \in [Checks -> BOOLEAN] : Validate(c, chk)
  \/ \E c \in FixCalls, ioOk \in BOOLEAN : Restore(c, ioOk)

(***************************************************************************)
(* The AutoFixer under callers that do not wait for one call to return     *)
(* before they make the next: applyFix and forceApplyFix are async and     *)
(* hold no lock, so a call can begin while another awaits its I/O.         *)
(***************************************************************************)
\* the configurations of the fixer the overlapping calls run with:
\* conservative mode is configured on
ConConfigs ==
  {[safeMode |-> TRUE, backupEnabled |-> TRUE, validateFixes |-> TRUE],
   [safeMode |-> TRUE, backupEnabled |-> FALSE, validateFixes |-> FALSE]}

ConNext ==
  \/ \E c \in FixCalls, e \in ToolDiagnostics, force \in BOOLEAN :
       BeginFix(c, e, force)
  \/ \E c \in FixCalls, stat \in StatOutcomes : Preview(c, stat)
  \/ \E c \in FixCalls, ioOk \in BOOLEAN : BackupRead(c, ioOk)
  \/ \E c \in FixCalls, copyOk \in BOOLEAN, saveOk \in BOOLEAN :
       BackupCopy(c, copyOk, saveOk)
  \/ \E c \in FixCalls, r \in ReadOutcomes : ApplyInternal(c, r)
  \/ \E c \in FixCalls, w \in WriteOutcomes : ApplyWrite(c, w)
  \/ \E c \in FixCalls, chk \in [Checks -> BOOLEAN] : Validate(c, chk)
  \/ \E c \in FixCalls, ioOk \in BOOLEAN : Restore(c, ioOk)

(***************************************************************************)
(***************************************************************************)
(* Part VIII - validateFix on its own                                      *)
(***************************************************************************)
(***************************************************************************)
besidesVal ==
  <<supVars, fixVars, parVars, monVars, bakVars, clsVars, toolVars, sesVars>>

NoVal ==
  [state |-> "idle", file |-> JsFile, eslintOn |-> FALSE,
   chk |-> [k \in Checks |-> TRUE], result |-> "none"]

ValInit == valCall = NoVal

ValIdle == ValInit

\* validateFix(filePath, fixResult) is called on file f; chk[k] is what
\* check k finds on the file when it is run
CallValidateFix(f, eslintOn, chk) ==
  /\ UNCHANGED besidesVal
  /\ valCall.state \in {"idle", "returned"}
  /\ valCall' = [state |-> "called", file |-> f, eslintOn |-> eslintOn,
                 chk |-> chk, result |-> "none"]

\* its promise resolves
ValidateFixReturn ==
  /\ UNCHANGED besidesVal
  /\ valCall.state = "called"
  /\ valCall' = [valCall EXCEPT
                   !.state = "returned",
                   !.result = ValidateFix(valCall.file, valCall.eslintOn,
                                          valCall.chk)]

ValNext ==
  \/ \E f \in Files, eslintOn \in BOOLEAN, chk \in [Checks -> BOOLEAN] :
       CallValidateFix(f, eslintOn, chk)
  \/ ValidateFixReturn

(***************************************************************************)
(***************************************************************************)
(* Part IX - the sessions of the MonitorService: start() with a config,    *)
(* the exit of the child, and the AutoFixer the service holds across       *)
(* sessions.                                                               *)
(***************************************************************************)
(***************************************************************************)
\* the merged config of a session: start(projectPath, config) with the
\* settings of the fixer all on (for "/a") or all off (for "/b")
SessionConfig(path, autoFixSetting) ==
  [projectPath |-> path, autoFix |-> autoFixSetting,
   safeMode |-> path = "/a", backupEnabled |-> path = "/a",
   validateFixes |-> path = "/a"]

SessionConfigs ==
  {SessionConfig(path, a) : path \in {"/a", "/b"}, a \in AutoFixSettings}

\* DEFAULT_CONFIG, with the working directory as project path
DefaultConfig ==
  [projectPath |-> "cwd", autoFix |-> TRUE, safeMode |-> TRUE,
   backupEnabled |-> TRUE, validateFixes |-> TRUE]

\* the config of an AutoFixer passed to the constructor of the service
InjectedConfig == [DefaultConfig EXCEPT !.projectPath = "injected"]

\* no AutoFixer, no config of it
NoFixerConfig == [DefaultConfig EXCEPT !.projectPath = "none"]

\* the service before its first session, given whether an AutoFixer was
\* passed to its constructor
SesInit ==
  session = [config |-> DefaultConfig,
             fixer |-> IF autoFixer THEN InjectedConfig ELSE NoFixerConfig]

SesIdle == session = [config |-> DefaultConfig, fixer |-> NoFixerConfig]

\* the chunks of output of a session, one diagnostic each
SessionChunks == {LintErrorLine, TsErrorLine}

\* start(projectPath, config): the merge of the config and the creation of
\* the AutoFixer, then the rest of start
SessionStart(cfg) ==
  /\ UNCHANGED <<supVars, fixVars, parVars, bakVars, clsVars, toolVars,
                 valVars>>
  /\ DoMonStart(cfg.autoFix)
  /\ session' = [config |-> cfg,
                 fixer |-> IF cfg.autoFix /\ ~autoFixer
                             THEN cfg ELSE session.fixer]

SesNext ==
  \/ \E cfg \in SessionConfigs : SessionStart(cfg)
  \/ MonExit
  \/ MonStreamsEnd
  \/ \E data \in SessionChunks : ProcessLogOutput(data)
  \/ \E key \in DOMAIN currentErrors : ApplyAutoFix(key)
  \/ \E outcome \in FixOutcomes : AutoFixSettles(outcome)

(***************************************************************************)
(***************************************************************************)
(* Specifications                                                          *)
(***************************************************************************)
(***************************************************************************)

\* the supervisor at rest, for the other parts' specifications
SupIdle == SupInit

\* the fixer at rest, for the supervisor's specification
FixIdle ==
  /\ config = [safeMode |-> TRUE, backupEnabled |-> TRUE, validateFixes |-> TRUE]
  /\ eslint = TRUE
  /\ fs = [f \in Files |-> OriginalContent]
  /\ blobs = [b \in BackupIds |-> Missing]
  /\ backupMetadata = [b \in BackupIds |-> NoMetadata]
  /\ metadataFile = {}
  /\ call = [c \in FixCalls |-> NoFix]
  /\ fixCount = 0

\* the monitor service at rest, for the other parts' specifications
MonIdle == MonInit /\ ~autoFixer

FixSpecInit ==
  SupIdle /\ FixInit /\ ParIdle /\ MonIdle /\ BakIdle /\ ClsIdle /\ ToolIdle
    /\ ValIdle /\ SesIdle

FixSpec == FixSpecInit /\ [][FixNext]_vars

SupSpecInit ==
  SupInit /\ FixIdle /\ ParIdle /\ MonIdle /\ BakIdle /\ ClsIdle /\ ToolIdle
    /\ ValIdle /\ SesIdle

SupSpec == SupSpecInit /\ [][SupNext]_vars

ParSpecInit ==
  SupIdle /\ FixIdle /\ ParInit /\ MonIdle /\ BakIdle /\ ClsIdle /\ ToolIdle
    /\ ValIdle /\ SesIdle

ParSpec == ParSpecInit /\ [][ParNext]_vars

MonSpecInit ==
  SupIdle /\ FixIdle /\ ParIdle /\ MonInit /\ BakIdle /\ ClsIdle /\ ToolIdle
    /\ ValIdle /\ SesIdle

MonSpec == MonSpecInit /\ [][MonNext]_vars

BakSpecInit ==
  SupIdle /\ FixIdle /\ ParIdle /\ MonIdle /\ BakInit /\ ClsIdle /\ ToolIdle
    /\ ValIdle /\ SesIdle

BakSpec == BakSpecInit /\ [][BakNext]_vars

ClsSpecInit ==
  SupIdle /\ FixIdle /\ ParIdle /\ MonIdle /\ BakIdle /\ ClsInit /\ ToolIdle
    /\ ValIdle /\ SesIdle

ClsSpec == ClsSpecInit /\ [][ClsNext]_vars

ToolSpecInit ==
  SupIdle /\ ParIdle /\ MonIdle /\ BakIdle /\ ClsIdle /\ ToolInit /\ ValIdle
    /\ SesIdle
    /\ \E cfg \in ToolConfigs : FixInit /\ config = cfg /\ eslint

ToolSpec == ToolSpecInit /\ [][ToolNext]_vars

ConSpecInit ==
  SupIdle /\ ParIdle /\ MonIdle /\ BakIdle /\ ClsIdle /\ ToolIdle /\ ValIdle
    /\ SesIdle
    /\ \E cfg \in ConConfigs : FixInit /\ config = cfg /\ eslint

ConSpec == ConSpecInit /\ [][ConNext]_vars

ValSpecInit ==
  SupIdle /\ FixIdle /\ ParIdle /\ MonIdle /\ BakIdle /\ ClsIdle /\ ToolIdle
    /\ ValInit /\ SesIdle

ValSpec == ValSpecInit /\ [][ValNext]_vars

SesSpecInit ==
  SupIdle /\ FixIdle /\ ParIdle /\ MonInit /\ BakIdle /\ ClsIdle /\ ToolIdle
    /\ ValIdle /\ SesInit

SesSpec == SesSpecInit /\ [][SesNext]_vars


(***************************************************************************)
(***************************************************************************)
(* Properties                                                              *)
(***************************************************************************)
(***************************************************************************)

ChildGone(k) == child[k].os \in {"exited", "failed"} /\ ~child[k].streams

\* C1: every start() settles - once the child it spawned is gone (exited or
\* failed to spawn, its streams closed) and its startup timer has expired,
\* nothing is left that could settle it, so by then it must have resolved or
\* been rejected.
C1_StartSettles ==
  \A c \in StartCalls :
    (startCall[c].child # 0 /\ startCall[c].timer = "fired"
       /\ ChildGone(startCall[c].child))
      => startCall[c].state # "pending"

BusyErrors == {"Process is already running", "Process is already starting"}

\* C9: a start() called while an earlier start() is still pending is
\* rejected with an already-running (or already-starting) error and spawns
\* no child.
C9_SecondStartRejected ==
  \A c \in StartCalls :
    startCall[c].busyAtCall =>
      /\ startCall[c].state = "rejected"
      /\ startCall[c].error \in BusyErrors
      /\ startCall[c].child = 0

\* C10: isRunning() is true exactly when a supervised child process has been
\* spawned (or its spawn is still in progress) and has not yet exited.
C10_IsRunningIffAlive ==
  IsRunning <=> (\E k \in Children : child[k].os \in {"alive", "failing"})

FileOf(c) == call[c].err.file

Returns(c) == call[c].pc # "done" /\ call'[c].pc = "done"

BackupRecorded(c) ==
  LET b == call[c].backupId IN
  /\ b # 0
  /\ HasMetadata(b)
  /\ backupMetadata[b].filePath = FileOf(c)
  /\ backupMetadata[b].checksum = CalculateChecksum(call[c].pre)
  /\ blobs[b] = call[c].pre

\* C2: with backups enabled, an attempt writes the target file only after a
\* backup holding the file's bytes, their checksum and the metadata entry
\* is recorded; an attempt whose backup fails ends having written nothing.
C2_BackupBeforeWrite ==
  [][\A c \in FixCalls :
       /\ (call[c].pc = "applyWrite" /\ call'[c].writes = call[c].writes + 1
             /\ config.backupEnabled) => BackupRecorded(c)
       /\ (call[c].pc \in {"backupRead", "backupCopy"}
             /\ call'[c].outcome = "threw") =>
            (call'[c].pc = "done" /\ call'[c].writes = 0 /\ fs' = fs)]_vars

C2_Witness ==
  \E c \in FixCalls :
    /\ config.backupEnabled
    /\ call[c].writes > 0
    /\ call[c].backupId # 0
    /\ fs[FileOf(c)] # call[c].pre

C4_ApplyFailureRestores ==
  [][\A c \in FixCalls :
       (Returns(c) /\ call'[c].writeFailed /\ config.backupEnabled
          /\ call[c].backupId # 0) =>
         (call'[c].outcome = "returned" /\ ~call'[c].success
            /\ fs'[FileOf(c)] = call[c].pre)]_vars

DenyList == ComplexFixes \cup HighRiskFixes

SafeModeReasons ==
  {"Fix blocked by safe mode - requires manual intervention",
   "Safe mode prevention: No fix strategy available",
   "Safe mode prevention: High-risk fix",
   "Safe mode prevention: Preview generation failed",
   "Safe mode prevention: File too large"}

\* C5: in conservative mode an applyFix on a diagnostic whose strategy is
\* on the deny-list never gets past the safe-mode gates: it writes nothing,
\* the target file keeps its content, and it returns a failed result whose
\* reason names the safe-mode restriction.
C5_DenyListBlocked ==
  \A c \in FixCalls :
    (call[c].pc # "idle" /\ call[c].gated
       /\ GetFixStrategy(call[c].err) \in DenyList) =>
      /\ call[c].pc \in {"preview", "done"}
      /\ call[c].writes = 0
      /\ call[c].backupId = 0
      /\ fs[FileOf(c)] = call[c].pre
      /\ call[c].pc = "done" =>
           /\ call[c].outcome = "returned"
           /\ ~call[c].success
           /\ call[c].reason \in SafeModeReasons

C5_Witness ==
  \E c \in FixCalls :
    /\ call[c].pc = "done" /\ call[c].gated
    /\ call[c].err.type = "eslint" /\ eslint
    /\ GetFixStrategy(call[c].err) \in DenyList
    /\ call[c].reason = "Safe mode prevention: High-risk fix"

\* C6: a forceApplyFix runs its attempt with conservative mode off, and when
\* it returns or throws the conservative-mode setting is the one it found
\* when it was called.
C6_ForceRestoresSafeMode ==
  [][\A c \in FixCalls :
       /\ (call'[c].force /\ call'[c].pc \notin {"idle", "done"}) =>
            ~config'.safeMode
       /\ (Returns(c) /\ call'[c].force) =>
            config'.safeMode = call'[c].originalSafeMode]_vars

C6_Witness ==
  \E c \in FixCalls :
    /\ call[c].pc = "done" /\ call[c].force
    /\ call[c].outcome = "threw"
    /\ call[c].originalSafeMode
    /\ config.safeMode

\* C7: applyFix never rejects - every attempt, whatever I/O fails in it,
\* ends with a returned FixResult.
C7_NeverRejects ==
  \A c \in FixCalls : call[c].outcome # "threw"

(***************************************************************************)
(* Log parser                                                              *)
(***************************************************************************)

\* the (category, message, file, line) of a diagnostic
Tuple(error) == <<error.type, error.message, error.file, error.line>>

\* the diagnostics of the lines of a buffer, one line at a time
LineErrors(buffer) == ParseLines(SplitLines(buffer), 1, 0)

\* the positions of errors that hold the first diagnostic of their tuple
FirstSeen(errors) ==
  {i \in DOMAIN errors :
     \A j \in 1..(i - 1) : Tuple(errors[j]) # Tuple(errors[i])}

\* C19: parseLogBuffer returns exactly one diagnostic for every distinct
\* (category, message, file, line) among the diagnostics of its lines, the
\* first one seen, in first-seen order; a buffer of blank lines returns
\* none.
C19_OnePerTuple ==
  parseCall.op = "parseLogBuffer" =>
    LET errors == LineErrors(parseCall.input) IN
    /\ Len(parseResult) = Cardinality(FirstSeen(errors))
    /\ \A i \in FirstSeen(errors) :
         LET k == Cardinality({j \in FirstSeen(errors) : j <= i}) IN
         /\ parseResult[k].raw = errors[i].raw
         /\ Tuple(parseResult[k]) = Tuple(errors[i])

\* the patterns that match a cleaned line
Matching(cleanLine) == {p \in Patterns : Matches(p, cleanLine)}

\* the first of them in table order
FirstMatching(cleanLine) ==
  CHOOSE p \in Matching(cleanLine) : \A q \in Matching(cleanLine) : p <= q

\* a cleaned line holds one of the error-indicating substrings, whatever
\* the case of its letters
HasIndicator(cleanLine) ==
  \E i \in 1..Len(cleanLine) : \E j \in i..Len(cleanLine) :
    ToLowerCase(SubSeq(cleanLine, i, j))
      \in {ToLowerCase(indicator) : indicator \in ErrorIndicators}

LiveSignature(error) == <<error.type, error.file, error.line, error.message>>

\* the signatures of the entries of a live set
LiveSignatures(errors) == {LiveSignature(errors[key]) : key \in DOMAIN errors}

\* a chunk of which every diagnostic has its signature in the live set
AllPresent(data) ==
  LET observed == Observed(data, nextId, now + 1) IN
  /\ observed # <<>>
  /\ \A i \in DOMAIN observed :
       LiveSignature(observed[i]) \in LiveSignatures(currentErrors)

\* C11: the live set never holds two diagnostics with the same (category,
\* file, line, message); a chunk whose diagnostics all have their
\* signatures in the live set changes only the timestamps of the entries:
\* the set keeps its keys, every entry keeps its other fields, and the
\* number of diagnostics seen stays what it was.
C11_OnePerSignature ==
  [][/\ \A k1, k2 \in DOMAIN currentErrors' :
          LiveSignature(currentErrors'[k1]) = LiveSignature(currentErrors'[k2])
            => k1 = k2
     /\ \A data \in OutputChunks :
          ProcessLogOutput(data) /\ AllPresent(data) =>
            /\ DOMAIN currentErrors' = DOMAIN currentErrors
            /\ metrics'.errorsDetected = metrics.errorsDetected
            /\ \A key \in DOMAIN currentErrors :
                 /\ [currentErrors'[key] EXCEPT !.timestamp = 0]
                      = [currentErrors[key] EXCEPT !.timestamp = 0]
                 /\ currentErrors'[key].timestamp
                      \in {currentErrors[key].timestamp, now'}]_vars

\* a diagnostic first seen in the first chunk, with the first id, has been
\* seen again in the second chunk
C11_Witness ==
  \E key \in DOMAIN currentErrors :
    /\ currentErrors[key].id = 1
    /\ currentErrors[key].timestamp = 2
    /\ metrics.errorsDetected = 1

\* C12: in every state the success rate of the metrics is fixesApplied /
\* errorsDetected as a percentage, and 0 when errorsDetected is 0.
C12_SuccessRate ==
  IF metrics.errorsDetected = 0
    THEN metrics.successRate.fixes = 0
    ELSE metrics.successRate.fixes * metrics.errorsDetected
           = metrics.fixesApplied * metrics.successRate.errors

\* C13: a step in which applyAutoFix returns a successful result leaves no
\* entry with the diagnostic's id in the live set, keeps every other
\* entry, and raises fixesApplied by one; a step in which it returns a
\* failed result leaves the live set and both counters as they were.
C13_RemediationFrame ==
  [][autoFix.state # "returned" /\ autoFix'.state = "returned" =>
       IF autoFix'.result = "success"
         THEN /\ KeysOfId(currentErrors', autoFix'.id) = {}
              /\ \A key \in DOMAIN currentErrors :
                   currentErrors[key].id # autoFix'.id =>
                     /\ key \in DOMAIN currentErrors'
                     /\ currentErrors'[key] = currentErrors[key]
              /\ DOMAIN currentErrors' \subseteq DOMAIN currentErrors
              /\ metrics'.fixesApplied = metrics.fixesApplied + 1
              /\ metrics'.errorsDetected = metrics.errorsDetected
         ELSE /\ currentErrors' = currentErrors
              /\ metrics'.fixesApplied = metrics.fixesApplied
              /\ metrics'.errorsDetected = metrics.errorsDetected]_vars

\* a successful remediation has returned and has taken its diagnostic out
\* of a live set that still holds another one
C13_Witness ==
  /\ autoFix.state = "returned"
  /\ autoFix.result = "success"
  /\ metrics.fixesApplied = 1
  /\ KeysOfId(currentErrors, autoFix.id) = {}
  /\ nextId > autoFix.id
  /\ DOMAIN currentErrors # {}

(***************************************************************************)
(* Fix attempts without a strategy, and lint diagnostics in safe mode      *)
(***************************************************************************)

\* a diagnostic that applyFixInternal hands to a strategy getter which
\* finds no strategy for it
NoStrategy(e) == e.type # "eslint" /\ GetFixStrategy(e) = Null

\* C16: an applyFix that gets to the attempt (safe mode off) on a diagnostic
\* without a strategy returns the failed result "No automatic fix
\* available" and has written nothing: it has not written the target file
\* and has put no backup in the backup store.
C16_NoStrategyNoWrite ==
  \A c \in FixCalls :
    (call[c].pc = "done" /\ call[c].outcome = "returned"
       /\ ~call[c].gated /\ NoStrategy(call[c].err)) =>
      /\ ~call[c].success
      /\ call[c].reason = "No automatic fix available"
      /\ call[c].writes = 0
      /\ call[c].backupId = 0

\* the results of applyFix that report a block by the safe-mode gates,
\* those of a file over the size threshold or without readable size apart
SafetyBlocks ==
  {"Fix blocked by safe mode - requires manual intervention",
   "Safe mode prevention: No fix strategy available",
   "Safe mode prevention: High-risk fix"}

\* C17: with safe mode on and ESLint available, an applyFix on an eslint
\* diagnostic does not return a safe-mode block unless the file is over
\* the size threshold.
C17_LintPassesSafeMode ==
  \A c \in FixCalls :
    (call[c].pc = "done" /\ call[c].gated /\ eslint
       /\ call[c].err.type = "eslint"
       /\ GetFixStrategy(call[c].err) \notin DenyList) =>
      call[c].reason \notin SafetyBlocks

(***************************************************************************)
(* Backup store                                                            *)
(***************************************************************************)

\* a backup without index entry, without backup file, or whose file no
\* longer has the recorded checksum
Unsound(b) ==
  \/ backupMetadata[b] = NoMetadata
  \/ blobs[b] = Missing
  \/ CalculateChecksum(blobs[b]) # backupMetadata[b].checksum

\* C14: a restore of a backup whose index entry or file is missing, or
\* whose file does not have the recorded checksum, ends with an error and
\* leaves every file of the project as it was; validateBackup on such a
\* backup returns false.
C14_UnsoundBackupRefused ==
  [][/\ (bakOp'.op = "restore" /\ Unsound(bakOp'.id)) =>
          /\ bakOp'.result \in {"Backup not found in metadata",
                                "Backup file not found",
                                "Backup failed integrity check",
                                "restore: I/O failed"}
          /\ fs' = fs
     /\ (bakOp'.op = "validate" /\ Unsound(bakOp'.id)) =>
          bakOp'.result = "false"]_vars

\* a restore has refused a damaged backup of a file that has been written
\* since the backup was made
C14_Witness ==
  /\ bakOp.op = "restore"
  /\ bakOp.result = "Backup failed integrity check"
  /\ blobs[bakOp.id] # Missing
  /\ blobs[bakOp.id] # captured[bakOp.id]
  /\ fs[backupMetadata[bakOp.id].filePath] # captured[bakOp.id]

\* C15: a restore of a backup whose file is as it was made puts the content
\* the target had when the backup was made back into the target, whatever
\* the target holds by then, unless reading the backup store fails; and a
\* restore that reports success has always done so.
C15_RestoreRoundTrip ==
  [][bakOp'.op = "restore" =>
       LET b == bakOp'.id IN
       /\ (backupMetadata[b] # NoMetadata /\ blobs[b] = captured[b]) =>
            \/ bakOp'.result = "restore: I/O failed"
            \/ /\ bakOp'.result = "restored"
               /\ fs'[backupMetadata[b].filePath] = captured[b]
       /\ bakOp'.result = "restored" =>
            /\ fs'[backupMetadata[b].filePath] = captured[b]
            /\ \A f \in Files :
                 f # backupMetadata[b].filePath => fs'[f] = fs[f]]_vars

\* a restore has put back the content of backup time over other content
C15_Witness ==
  /\ bakOp.op = "restore"
  /\ bakOp.result = "restored"
  /\ bakOp.found # captured[bakOp.id]
  /\ fs[backupMetadata[bakOp.id].filePath] = captured[bakOp.id]

\* a backup made more than the retention window ago
PastRetention(b) ==
  /\ backupMetadata[b] # NoMetadata
  /\ today - backupMetadata[b].timestamp > RetentionDays

C21_LocationOneBased ==
  \A i \in 1..Len(parseResult) :
    /\ parseResult[i].line >= 1
    /\ parseResult[i].column >= 1
    /\ parseResult[i].file = "unknown" =>
         parseResult[i].line = 1 /\ parseResult[i].column = 1

(***************************************************************************)
(* Properties of the classifier (ClsSpec).                                 *)
(***************************************************************************)

\* the value of the first priority pattern of the category the message
\* passes, 0 when it passes none
Override(type, message) ==
  LET rules == MessagePatternsForPriority(type)
      hits == {k \in DOMAIN rules : Test(rules[k].pattern, message)}
  IN IF hits = {} THEN 0
     ELSE rules[CHOOSE k \in hits : \A h \in hits : k <= h].priority

Clamp(n) == IF n < 1 THEN 1 ELSE IF n > 100 THEN 100 ELSE n

\* the priority as stated: base, raised to the override, boost, penalty,
\* clamp
StatedPriority(d) ==
  LET base == IF d.severity = "error" THEN 50 ELSE 25
      override == Override(d.type, d.message)
      raised == IF override > base THEN override ELSE base
      boost == IF d.type \in {"build", "syntax"} THEN 10 ELSE 0
      penalty == IF d.severity = "warning" THEN 20 ELSE 0
  IN Clamp(raised + boost - penalty)

TypeMismatch == "Type 'a' is not assignable to type 'b'"

SameButSeverity(d, e) ==
  /\ d.severity = "error"
  /\ e.severity = "warning"
  /\ [d EXCEPT !.id = 0, !.severity = "", !.priority = 0,
               !.relatedErrors = <<>>]
       = [e EXCEPT !.id = 0, !.severity = "", !.priority = 0,
                   !.relatedErrors = <<>>]

(***************************************************************************)
(* C23: of two returned diagnostics that differ in severity only, the      *)
(* warning's priority is not greater than the error's, and every priority  *)
(* lies in [1,100].                                                        *)
(***************************************************************************)
C23_WarningNotAboveError ==
  \A i \in 1..Len(rankResult) :
    /\ rankResult[i].priority \in 1..100
    /\ \A j \in 1..Len(rankResult) :
         SameButSeverity(rankResult[i], rankResult[j]) =>
           rankResult[j].priority <= rankResult[i].priority

C23_Witness ==
  \E i, j \in 1..Len(rankResult) :
    /\ SameButSeverity(rankResult[i], rankResult[j])
    /\ rankResult[i].type = "build"
    /\ rankResult[i].priority = 100
    /\ rankResult[j].priority < 100

(***************************************************************************)
(* C24: an ESLint warning has priority 15 when its message holds           *)
(* 'Trailing comma' and priority 10 when it holds 'Expected indentation'.  *)
(***************************************************************************)
C24_StyleWarningPriority ==
  \A i \in 1..Len(rankResult) :
    LET d == rankResult[i] IN
    d.type = "eslint" /\ d.severity = "warning" =>
      /\ Includes(d.message, "Trailing comma") => d.priority = 15
      /\ Includes(d.message, "Expected indentation") => d.priority = 10

Related(d) == {d.relatedErrors[k] : k \in 1..Len(d.relatedErrors)}

\* d and e have a group key, the same one
ShareGroup(d, e) == d.groupId # Undefined /\ d.groupId = e.groupId

(***************************************************************************)
(* C25: after classifyErrors, for two distinct diagnostics A and B of the  *)
(* result, A's relatedErrors holds B's id exactly when A and B share a     *)
(* group key; it never holds A's own id, and it is empty when A is alone   *)
(* in its group.                                                           *)
(***************************************************************************)
C25_RelatedIffSameGroup ==
  rankCall.op = "classifyErrors" =>
    \A i \in 1..Len(rankResult) :
      LET a == rankResult[i] IN
      /\ a.id \notin Related(a)
      /\ \A j \in 1..Len(rankResult) \ {i} :
           rankResult[j].id \in Related(a) <=> ShareGroup(a, rankResult[j])
      /\ (\A j \in 1..Len(rankResult) \ {i} : ~ShareGroup(a, rankResult[j]))
           => a.relatedErrors = <<>>

C25_Witness ==
  /\ rankCall.op = "classifyErrors"
  /\ Len(rankResult) = 3
  /\ \E i, j, k \in 1..3 :
       /\ {i, j, k} = 1..3
       /\ rankResult[i].relatedErrors = <<rankResult[j].id>>
       /\ rankResult[j].relatedErrors = <<rankResult[i].id>>
       /\ rankResult[k].relatedErrors = <<>>
       /\ rankResult[k].groupId # Undefined

\* the returned diagnostic without what classifyErrors adds to it
AsParsed(d) ==
  [f \in DOMAIN NoError |-> d[f]]

(***************************************************************************)
(* C26: classifyErrors returns every diagnostic of its input exactly once, *)
(* by descending priority, the diagnostics of equal priority in the order  *)
(* they have in the input.                                                 *)
(***************************************************************************)
C26_SortedStable ==
  rankCall.op = "classifyErrors" =>
    /\ Len(rankResult) = Len(rankCall.input)
    /\ \A k \in 1..Len(rankCall.input) :
         \E i \in 1..Len(rankResult) :
           /\ AsParsed(rankResult[i]) = rankCall.input[k]
           /\ \A j \in 1..Len(rankResult) :
                rankResult[j].id = rankCall.input[k].id => j = i
    /\ \A i, j \in 1..Len(rankResult) :
         i < j =>
           \/ rankResult[i].priority > rankResult[j].priority
           \/ /\ rankResult[i].priority = rankResult[j].priority
              /\ rankResult[i].id < rankResult[j].id

C26_Witness ==
  /\ rankCall.op = "classifyErrors"
  /\ Len(rankResult) = 3
  /\ rankResult[1].id = 3
  /\ rankResult[2].id = 1
  /\ rankResult[3].id = 2
  /\ rankResult[2].priority = rankResult[3].priority

(***************************************************************************)
(* Properties of restart() and of the late ready signal (SupSpec).         *)
(***************************************************************************)

\* start() was never called on the supervisor
NeverStarted == \A c \in StartCalls : startCall[c].state = "idle"

(***************************************************************************)
(* C27: restart() on a supervisor on which start() was never called is     *)
(* rejected with the "no project path stored" error, and no child process  *)
(* is spawned.                                                             *)
(***************************************************************************)
C27_RestartNeverStarted ==
  [][\A r \in RestartCalls :
       (NeverStarted /\ restartCall[r].state = "idle"
          /\ restartCall'[r].state # "idle") =>
         /\ restartCall'[r].state = "rejected"
         /\ restartCall'[r].error = "Cannot restart: no project path stored"
         /\ child' = child
         /\ process' = process
         /\ startCall' = startCall]_vars

C27_Witness ==
  /\ NeverStarted
  /\ \A k \in Children : child[k].os = "unborn"
  /\ \E r \in RestartCalls :
       /\ restartCall[r].state = "rejected"
       /\ restartCall[r].error = "Cannot restart: no project path stored"

(***************************************************************************)
(* C29: a start() that is pending when its child has exited is not         *)
(* resolved afterwards: a ready signal that arrives after the child's      *)
(* 'exit' event does not settle it as successful.                          *)
(***************************************************************************)
C29_NoResolveAfterExit ==
  [][\A c \in StartCalls :
       (/\ startCall[c].state = "pending"
        /\ startCall[c].child # 0
        /\ child[startCall[c].child].os = "exited") =>
         startCall'[c].state # "resolved"]_vars

(***************************************************************************)
(* C28: the apply_fix tool creates a backup before applying the fix        *)
(* exactly when its createBackup input is true: of a request that reached  *)
(* the write of the fix, a backup was made if and only if the request      *)
(* asked for one.                                                          *)
(***************************************************************************)
C28_BackupIffRequested ==
  \A c \in FixCalls :
    (toolCall.made[c].state = "applying" /\ call[c].writes > 0)
      => (call[c].backupId # 0 <=> toolCall.made[c].createBackup)

\* a fix attempt between its applyFix call and its result
InFlight(c) == call[c].pc \notin {"idle", "done"}

(***************************************************************************)
(* C30: for any sequence of apply_fix requests, the backup / apply /       *)
(* validate / rollback sequence of one attempt on a file runs to           *)
(* completion before another attempt on the same file begins: no two       *)
(* attempts in flight are on the same file.                                *)
(***************************************************************************)
C30_OneAttemptPerFile ==
  \A c, d \in FixCalls :
    (c # d /\ InFlight(c) /\ InFlight(d)) => call[c].err.file # call[d].err.file

\* restart() r, called on a running supervisor, makes its start() call
RestartStarts(r) ==
  restartCall[r].state = "stopping" /\ restartCall'[r].state = "starting"

\* the start() calls before c that were refused by a guard of start()
\* store nothing
Refused(d) ==
  startCall[d].error \in
    {"Process is already starting", "Process is already running"}

\* the most recent start() call before c that stored its arguments
LastStored(c) ==
  CHOOSE d \in StartCalls :
    /\ d < c /\ ~Refused(d)
    /\ \A e \in StartCalls : (e < c /\ ~Refused(e)) => e <= d

(***************************************************************************)
(* C31 as stated: restart() on a running supervisor spawns the new child   *)
(* only after the previous child has exited, and starts it with the path   *)
(* and options of the most recent start() call.                            *)
(***************************************************************************)
C31_RestartMostRecent ==
  [][\A r \in RestartCalls :
       RestartStarts(r) =>
         LET c == restartCall'[r].start
             prev == stopCall[restartCall[r].stop].child
         IN /\ child[prev].os = "exited"
            /\ startCall'[c].path = startCall[c - 1].path
            /\ startCall'[c].opts = startCall[c - 1].opts]_vars

(***************************************************************************)
(* C31 amended: restart() on a running supervisor spawns the new child     *)
(* only after the previous child has exited, and starts it with the path   *)
(* and options of the most recent start() call that was not refused as     *)
(* already starting or already running (a refused call stores nothing).    *)
(***************************************************************************)
C31_RestartStored ==
  [][\A r \in RestartCalls :
       RestartStarts(r) =>
         LET c == restartCall'[r].start
             prev == stopCall[restartCall[r].stop].child
         IN /\ child[prev].os = "exited"
            /\ \E d \in StartCalls : d < c /\ ~Refused(d)
            /\ startCall'[c].path = startCall[LastStored(c)].path
            /\ startCall'[c].opts = startCall[LastStored(c)].opts]_vars

\* a restart() stopped the running child, a start() refused in between
\* named other arguments, and the new child was spawned
C31_Witness ==
  \E r \in RestartCalls :
    /\ restartCall[r].stop # 0 /\ restartCall[r].start # 0
    /\ LET c == restartCall[r].start IN
       /\ startCall[c].child # 0
       /\ child[stopCall[restartCall[r].stop].child].os = "exited"
       /\ startCall[c - 1].error = "Process is already running"
       /\ startCall[c - 1].path # startCall[c].path
       /\ startCall[c].opts = "port"

\* the order of the checks of validateFix, and the error each reports
CheckOrder == <<"syntax", "typescript", "eslint", "size">>

CheckError(k) ==
  CASE k = "syntax" -> "Syntax error"
    [] k = "typescript" -> "TypeScript error"
    [] k = "eslint" -> "ESLint error"
    [] k = "size" -> "File size exceeds maximum"

\* the earliest check of the order among the checks in the set bad
Earliest(bad) ==
  CheckOrder[CHOOSE i \in DOMAIN CheckOrder :
               /\ CheckOrder[i] \in bad
               /\ \A j \in DOMAIN CheckOrder : CheckOrder[j] \in bad => i <= j]

(***************************************************************************)
(* C32: post-fix validation runs its checks in the order syntax probe,     *)
(* static-type heuristic, lint pass, file-size ceiling and stops at the    *)
(* first failing check: a validation fails exactly when one of the checks  *)
(* it runs on the file fails, and the reason it reports is that of the     *)
(* earliest failing check.                                                 *)
(***************************************************************************)
C32_EarliestFailingCheck ==
  valCall.state = "returned" =>
    LET bad == {k \in Checks :
                  Applies(k, valCall.file, valCall.eslintOn) /\ ~valCall.chk[k]}
    IN IF bad = {}
         THEN valCall.result = "valid"
         ELSE valCall.result = CheckError(Earliest(bad))

\* a validation returned on a file that fails the static-type heuristic,
\* the lint pass and the size ceiling: the type heuristic is reported
C32_Witness ==
  /\ valCall.state = "returned"
  /\ valCall.file = ApiFile /\ valCall.eslintOn
  /\ valCall.chk = [k \in Checks |-> k = "syntax"]
  /\ valCall.result = "TypeScript error"

\* the children whose OS process exists
Alive == {k \in Children : child[k].os = "alive"}

(***************************************************************************)
(* C33: after any sequence of start(), stop() and restart() calls and      *)
(* child-process events, at most one supervised child process is alive.    *)
(***************************************************************************)
C33_OneChildAlive == Cardinality(Alive) <= 1

(***************************************************************************)
(* C34: a startup-timeout timer armed by one start() call never kills a    *)
(* child process spawned by a later start() call: when the timer of call   *)
(* c fires, only the child that call spawned may receive a signal.         *)
(***************************************************************************)
C34_TimerKillsOwnChild ==
  [][\A c \in StartCalls :
       (startCall[c].timer = "armed" /\ startCall'[c].timer = "fired") =>
         \A k \in Children :
           child'[k].signals # child[k].signals => child[k].owner = c]_vars

(***************************************************************************)
(* C35: after any set of forceApplyFix calls, including calls that overlap *)
(* in time, has completed, the conservative-mode setting equals the value  *)
(* it had before the first of them began (it is configured on).            *)
(***************************************************************************)
C35_SafeModeAfterOverlap == NoCallInFlight => config.safeMode

(***************************************************************************)
(* C36: a fix attempt started through applyFix while conservative mode is  *)
(* configured on is always subject to the conservative-mode safety check,  *)
(* even when it runs while a forceApplyFix call is in flight.              *)
(***************************************************************************)
C36_ApplyFixAlwaysGated ==
  \A c \in FixCalls :
    (call[c].pc # "idle" /\ ~call[c].force) => call[c].gated

(***************************************************************************)
(* C37: after a session has been stopped and a new session started with a  *)
(* different configuration, remediation requests are executed under the    *)
(* new session's configuration: while a request runs in the AutoFixer the  *)
(* service created, the config that AutoFixer holds is the session's.      *)
(***************************************************************************)
C37_FixUnderSessionConfig ==
  (autoFix.state = "fixing" /\ session.fixer # InjectedConfig)
    => session.fixer = session.config

\* the ids of the diagnostics of the live set
LiveIds == {currentErrors[key].id : key \in DOMAIN currentErrors}

(***************************************************************************)
(* C38: after any sequence of processed output chunks and resolutions,     *)
(* every id in the relatedErrors list of a diagnostic in the live set      *)
(* identifies a diagnostic that is itself in the live set.                 *)
(***************************************************************************)
C38_RelatedAreLive ==
  \A key \in DOMAIN currentErrors :
    \A i \in DOMAIN currentErrors[key].relatedErrors :
      currentErrors[key].relatedErrors[i] \in LiveIds

\* the number of 'errorResolved' events among the events of a step
Resolved(events) ==
  Cardinality({i \in DOMAIN events : events[i] = "errorResolved"})

(***************************************************************************)
(* C40: each successful remediation through the monitor service emits      *)
(* exactly one 'errorResolved' event for the fixed diagnostic, and a       *)
(* failed remediation emits none.                                          *)
(***************************************************************************)
C40_OneResolvedEvent ==
  [][(autoFix.state = "fixing" /\ autoFix'.state = "returned") =>
       Resolved(emitted') = IF autoFix'.result = "success" THEN 1 ELSE 0]_vars

\* a stream of output as the chunks it is delivered in: TsErrorLine cut
\* inside its message
Deliveries == {<<TsErrorHead, TsErrorTail>>}

RECURSIVE LiveAfter(_, _, _, _)
\* the live set after processLogOutput has handled the chunks in order
LiveAfter(live, chunks, id, ts) ==
  IF chunks = <<>> THEN live
  ELSE LiveAfter(HandleAll(live, Observed(Head(chunks), id, ts)),
                 Tail(chunks),
                 id + Len(ParseLines(SplitLines(Head(chunks)), id, ts)),
                 ts + 1)

\* the keys (type, file, line, message) of the live set after the chunks
LiveKeys(chunks) ==
  DOMAIN LiveAfter([errors |-> NoErrors, metrics |-> NoMetrics,
                    emitted |-> <<>>], chunks, 1, 1).errors

(***************************************************************************)
(* C39: the live diagnostic set after a stream of process output has been  *)
(* processed does not depend on how the stream was split into chunks: a    *)
(* diagnostic line delivered across two consecutive chunks is recorded the *)
(* same as when it is delivered in one chunk.                              *)
(***************************************************************************)
C39_ChunkingIndependent ==
  parseCall.op = "parseLogBuffer" =>
    \A d \in Deliveries :
      d[1] \o d[2] = parseCall.input =>
        LiveKeys(d) = LiveKeys(<<parseCall.input>>)

=============================================================================
